---- MODULE Spec2Model ----
(***************************************************************************)
(* Model of python-epsg's XML graph loader (epsg/load.py) and of the       *)
(* attribute validators of the entity model (epsg/schema.py).              *)
(*                                                                         *)
(* A loader state is the pair (objects, heap): `objects` is the memo of    *)
(* XMLLoader (URN -> object), the heap gives every registered object its   *)
(* identity (its position) and its attributes.  An instance that is still  *)
(* under construction is carried as a value: the code registers an         *)
(* instance only after its loader method has returned (load.py:135-139),   *)
(* so nothing can refer to it before that point.                           *)
(*                                                                         *)
(* Every loader operator returns a record [self, err, val]: the loader     *)
(* state after the call, the exception that left the call (NoErr when it   *)
(* returned) and the returned value.                                       *)
(***************************************************************************)
EXTENDS Integers, Sequences, FiniteSets, TLC

VARIABLES xml, objects, heap, result, firstReturn, dom, db, other, transaction

vars == <<xml, objects, heap, result, firstReturn, dom, db, other, transaction>>

\* what the loader leaves alone: the DOM, the databases of the registries and
\* the transaction of a session that writes to one
environment == <<dom, db, other, transaction>>

(***************************************************************************)
(* Values                                                                  *)
(***************************************************************************)
\* Python's None, for texts, attribute values and keys
None == "None"

\* a session that is in no transaction
NoTransaction == [pc |-> "none"]

\* no exception
NoErr == "ok"

\* nested Python calls after which the interpreter raises RuntimeError
\* ("maximum recursion depth exceeded"); counted in calls of __getitem__
\* and loadElement
RecursionLimit == 4

\* the URNs that are identifiers of the document
URNs == {"urn:1", "urn:2", "urn:3"}

\* a URN that is the identifier of no element
AbsentURN == "urn:0"

\* what an xlink:href can hold: a URN of the document, a URN that is not in
\* the document, or nothing (child element or attribute missing)
Targets == URNs \cup {AbsentURN, None}

\* the keys a caller can pass to loader[key]
Keys == URNs \cup {AbsentURN, None}

(***************************************************************************)
(* schema.py: attribute validators.  A Python value is a record whose      *)
(* type field is the name of its class.                                    *)
(***************************************************************************)
NoneValue == [type |-> "NoneType"]

PyStr(s) == [type |-> "str", v |-> s]

PyUnicode(s) == [type |-> "unicode", v |-> s]

\* an int, and a float held in tenths
PyInt(n) == [type |-> "int", v |-> n]

PyFloat(tenths) == [type |-> "float", v |-> tenths]

PyList(s) == [type |-> "list", v |-> s]

\* datetime.date(y, m, d) and datetime.datetime(y, m, d, hour); a date is
\* the tuple <<y, m, d>>
PyDate(d) == [type |-> "date", date |-> d]

PyDatetime(d, hour) == [type |-> "datetime", date |-> d, hour |-> hour]

\* the text of a child element as the value that is assigned: a str, or
\* None when the child is missing
TextValue(text) == IF text = None THEN NoneValue ELSE PyStr(text)

\* isinstance(value, (str, unicode))
isinstance_basestring(value) == value.type \in {"str", "unicode"}

\* isinstance(value, datetime.datetime)
isinstance_datetime(value) == value.type = "datetime"

\* isinstance(value, datetime.date): datetime is a subclass of date
isinstance_date(value) == value.type \in {"date", "datetime"}

\* texts that Python's float() parses, with the number in tenths
FloatLiterals == {"7", "7.0", "-2.5"}

FloatOf(s) == CASE s = "7" -> 70 [] s = "7.0" -> 70 [] s = "-2.5" -> -25

\* texts that strptime(value, '%Y-%m-%d') parses, with the date: the
\* directives %m and %d take one or two digits
DateLiterals == {"1936-01-01", "1936-1-1", "2000-12-31"}

DateOf(s) ==
    CASE s = "1936-01-01" -> <<1936, 1, 1>>
      [] s = "1936-1-1" -> <<1936, 1, 1>>
      [] s = "2000-12-31" -> <<2000, 12, 31>>

\* str(d) of a date: its ISO form
isoformat(d) ==
    CASE d = <<1936, 1, 1>> -> "1936-01-01"
      [] d = <<2000, 12, 31>> -> "2000-12-31"

\* float(value): a number, a str that is a literal; ValueError for another
\* str, TypeError for any other object
float(value) ==
    IF value.type = "float" THEN [err |-> NoErr, val |-> <<value.v>>]
    ELSE IF value.type = "int" THEN [err |-> NoErr, val |-> <<10 * value.v>>]
    ELSE IF isinstance_basestring(value)
         THEN IF value.v \in FloatLiterals
              THEN [err |-> NoErr, val |-> <<FloatOf(value.v)>>]
              ELSE [err |-> "ValueError", val |-> <<>>]
    ELSE [err |-> "TypeError", val |-> <<>>]

\* a variant without the raise: a TypeError is dropped for every value
except_TypeError_NoRaise(value, r) ==
    IF r.err = "TypeError"
    THEN [err |-> NoErr, val |-> <<>>]
    ELSE r

\* except TypeError: None is returned as it is, the error of any other
\* value is raised again
except_TypeError(value, r) ==
    IF r.err = "TypeError" /\ value = NoneValue
    THEN [err |-> NoErr, val |-> <<>>]
    ELSE r

\* _validate_float: the stored value is <<>> for None and <<tenths>> for a
\* number
_validate_float(value) == except_TypeError(value, float(value))

\* a variant that keeps a datetime as it is
_validate_date_KeepDatetime(value) ==
    IF isinstance_date(value) THEN [err |-> NoErr, val |-> value.date \o <<value.type>>]
    ELSE IF value = NoneValue THEN [err |-> NoErr, val |-> <<>>]
    ELSE IF isinstance_basestring(value)
         THEN IF value.v \in DateLiterals
              THEN [err |-> NoErr, val |-> DateOf(value.v)]
              ELSE [err |-> "ValueError", val |-> <<>>]
    ELSE [err |-> "TypeError", val |-> <<>>]

\* _validate_date: the stored value is <<>> for None and <<y, m, d>> for a
\* date
_validate_date(value) ==
    IF isinstance_datetime(value) THEN [err |-> NoErr, val |-> value.date]
    ELSE IF isinstance_date(value) THEN [err |-> NoErr, val |-> value.date]
    ELSE IF value = NoneValue THEN [err |-> NoErr, val |-> <<>>]
    ELSE IF isinstance_basestring(value)
         THEN IF value.v \in DateLiterals
              THEN [err |-> NoErr, val |-> DateOf(value.v)]
              ELSE [err |-> "ValueError", val |-> <<>>]
    ELSE [err |-> "TypeError", val |-> <<>>]

(***************************************************************************)
(* load.py: getText and the Identifier Index (class XML).  A DOM is the    *)
(* sequence of its nodes in document order; a node has a tag ("#text" for  *)
(* a text node), the position of its parent (0 for the document) and, for  *)
(* a text node, its data, a sequence of characters.                        *)
(***************************************************************************)
\* the characters that str.strip() removes
Whitespace == {" ", "\n"}

RECURSIVE lstrip(_)
lstrip(s) == IF s # <<>> /\ Head(s) \in Whitespace THEN lstrip(Tail(s)) ELSE s

RECURSIVE rstrip(_)
rstrip(s) ==
    IF s # <<>> /\ s[Len(s)] \in Whitespace THEN rstrip(SubSeq(s, 1, Len(s) - 1)) ELSE s

strip(s) == lstrip(rstrip(s))

\* node.childNodes, in document order
childNodes(d, n) == SelectSeq([i \in 1..Len(d) |-> i], LAMBDA i : d[i].parent = n)

\* getText: the data of the text children and the text of the children that
\* have children themselves, joined and stripped
RECURSIVE getText(_, _)
RECURSIVE JoinText(_, _, _)
JoinText(d, children, i) ==
    IF i > Len(children) THEN <<>>
    ELSE LET child == children[i]
             txt == IF d[child].tag = "#text" THEN d[child].data
                    ELSE IF childNodes(d, child) # <<>> THEN getText(d, child)
                    ELSE <<>>
         IN txt \o JoinText(d, children, i + 1)

getText(d, n) == strip(JoinText(d, childNodes(d, n), 1))

\* dom.getElementsByTagName(name): the elements of that name in document order
getElementsByTagName(d, name) ==
    SelectSeq([i \in 1..Len(d) |-> i], LAMBDA i : d[i].tag = name)

\* the loop of createMapping with a URN that is already mapped left alone
RECURSIVE MappingFrom_FirstWins(_, _, _, _)
MappingFrom_FirstWins(d, elements, i, mapping) ==
    IF i > Len(elements) THEN mapping
    ELSE MappingFrom_FirstWins(d, elements, i + 1,
                               mapping @@ (getText(d, elements[i]) :> d[elements[i]].parent))

\* the loop of createMapping from the i-th identifier element on:
\* mapping[urn] = element.parentNode
RECURSIVE MappingFrom(_, _, _, _)
MappingFrom(d, elements, i, mapping) ==
    IF i > Len(elements) THEN mapping
    ELSE MappingFrom(d, elements, i + 1,
                     (getText(d, elements[i]) :> d[elements[i]].parent) @@ mapping)

createMapping(d) == MappingFrom(d, getElementsByTagName(d, "identifier"), 1, <<>>)

(***************************************************************************)
(* load.py: results and the XML helpers                                    *)
(***************************************************************************)
Return(self, val) == [self |-> self, err |-> NoErr, val |-> val]

Raise(self, e) == [self |-> self, err |-> e, val |-> None]

\* text of the first childName descendant, None when there is none
getFirstChildNodeText(node, childName) ==
    IF childName \in DOMAIN node.text THEN node.text[childName] ELSE None

\* xlink:href of the first childName descendant, None when the child or the
\* attribute is missing
getFirstChildAttributeValue(node, childName) ==
    IF childName \in DOMAIN node.href THEN node.href[childName] ELSE None

getIdentifier(element) == getFirstChildNodeText(element, "identifier")

\* instance.<attr> = text of child, for a column without a validator
SetText(r, element, attr, childName) ==
    IF r.err # NoErr THEN r
    ELSE Return(r.self, [r.val EXCEPT !.text = (attr :> getFirstChildNodeText(element, childName)) @@ @])

\* instance.<attr> = text of child, for a Float column
SetFloat(r, element, attr, childName) ==
    IF r.err # NoErr THEN r
    ELSE LET v == _validate_float(TextValue(getFirstChildNodeText(element, childName)))
         IN IF v.err # NoErr THEN Raise(r.self, v.err)
            ELSE Return(r.self, [r.val EXCEPT !.value = (attr :> v.val) @@ @])

\* instance.<attr> = text of child, for the Date column
SetDate(r, element, attr, childName) ==
    IF r.err # NoErr THEN r
    ELSE LET v == _validate_date(TextValue(getFirstChildNodeText(element, childName)))
         IN IF v.err # NoErr THEN Raise(r.self, v.err)
            ELSE Return(r.self, [r.val EXCEPT !.value = (attr :> v.val) @@ @])

RECURSIVE __getitem__(_, _, _)

RECURSIVE loadElement(_, _, _)

\* Python's None where an object is expected (the result of loadElement)
NoObject == [class |-> None]

\* SetRef with a missing xlink:href skipped: the attribute stays unset
SetRef_SkipMissing(r, element, attr, childName, depth) ==
    IF r.err # NoErr THEN r
    ELSE IF getFirstChildAttributeValue(element, childName) = None THEN r
    ELSE LET g == __getitem__(r.self, getFirstChildAttributeValue(element, childName), depth + 1)
         IN IF g.err # NoErr THEN Raise(g.self, g.err)
            ELSE Return(g.self, [r.val EXCEPT !.ref = (attr :> g.val) @@ @])

\* instance.<attr> = self[href of child]
SetRef(r, element, attr, childName, depth) ==
    IF r.err # NoErr THEN r
    ELSE LET g == __getitem__(r.self, getFirstChildAttributeValue(element, childName), depth + 1)
         IN IF g.err # NoErr THEN Raise(g.self, g.err)
            ELSE Return(g.self, [r.val EXCEPT !.ref = (attr :> g.val) @@ @])

(***************************************************************************)
(* load.py: the loader methods.  A method is the class it instantiates and *)
(* the assignments it makes, in the order in which it makes them.          *)
(***************************************************************************)
\* instance.<attr> = self.getFirstChildNodeText(element, <child>) on a column
\* without a validator, with the float validator, with the date validator
Text(attr, child) == [op |-> "text", attr |-> attr, child |-> child]

Float(attr, child) == [op |-> "float", attr |-> attr, child |-> child]

Date(attr, child) == [op |-> "date", attr |-> attr, child |-> child]

\* instance.<attr> = self[self.getFirstChildAttributeValue(element, <child>, 'xlink:href')]
Ref(attr, child) == [op |-> "ref", attr |-> attr, child |-> child]

\* the loop over the axis nodes, the loop over the componentReferenceSystem nodes
Axes == [op |-> "axes", attr |-> "axes", child |-> "axis"]

Components ==
    [op |-> "components", attr |-> "componentReferenceSystems",
     child |-> "componentReferenceSystem"]

Method(class_, assignments) == [class |-> class_, assignments |-> assignments]

\* schema.Identifier.__init__
NewInstance(class_, identifier) ==
    [class |-> class_, identifier |-> identifier,
     text |-> <<>>, value |-> <<>>, ref |-> <<>>, list |-> <<>>]

loadDictionaryEntry(class_) ==
    Method(class_, <<Text("name", "name"),
                     Text("remarks", "remarks"),
                     Text("anchorDefinition", "anchorDefinition"),
                     Text("informationSource", "epsg:informationSource")>>)

\* the decorators run the decorated method and then make their assignment
addType(method) == Method(method.class, Append(method.assignments, Text("type", "epsg:type")))

addScope(method) == Method(method.class, Append(method.assignments, Text("scope", "scope")))

addDomainOfValidity(method) ==
    Method(method.class,
           Append(method.assignments, Ref("domainOfValidity", "domainOfValidity")))

\* a method followed by further assignments
Then(method, assignments) == Method(method.class, method.assignments \o assignments)

loadDatum(class_) ==
    addType(addScope(addDomainOfValidity(
        Then(loadDictionaryEntry(class_), <<Date("realizationEpoch", "realizationEpoch")>>))))

loadGeodeticDatum ==
    Then(loadDatum("GeodeticDatum"),
         <<Ref("primeMeridian", "primeMeridian"), Ref("ellipsoid", "ellipsoid")>>)

loadVerticalDatum == loadDatum("VerticalDatum")

loadEngineeringDatum == loadDatum("EngineeringDatum")

loadEllipsoid ==
    Then(loadDictionaryEntry("Ellipsoid"),
         <<Float("semiMajorAxis", "semiMajorAxis"),
           Float("semiMinorAxis", "semiMinorAxis"),
           Float("inverseFlattening", "inverseFlattening"),
           Text("isSphere", "isSphere")>>)

loadPrimeMeridian ==
    Then(loadDictionaryEntry("PrimeMeridian"),
         <<Float("greenwichLongitude", "greenwichLongitude")>>)

loadAreaOfUse ==
    Then(loadDictionaryEntry("AreaOfUse"),
         <<Text("description", "gmd:description"),
           Float("westBoundLongitude", "gmd:westBoundLongitude"),
           Float("eastBoundLongitude", "gmd:eastBoundLongitude"),
           Float("southBoundLatitude", "gmd:southBoundLatitude"),
           Float("northBoundLatitude", "gmd:northBoundLatitude")>>)

loadCoordinateReferenceSystem(class_) ==
    addType(addScope(addDomainOfValidity(loadDictionaryEntry(class_))))

\* CoordinateSystemAxis is no DictionaryEntry: the identifier alone
loadCoordinateSystemAxis ==
    Method("CoordinateSystemAxis",
           <<Text("axisAbbrev", "axisAbbrev"),
             Text("axisDirection", "axisDirection"),
             Ref("descriptionReference", "descriptionReference")>>)

loadAxisName == Then(loadDictionaryEntry("AxisName"), <<Text("description", "description")>>)

loadCoordinateSystem(class_) == addType(Then(loadDictionaryEntry(class_), <<Axes>>))

loadEllipsoidalCS == loadCoordinateSystem("EllipsoidalCS")

loadCartesianCS == loadCoordinateSystem("CartesianCS")

\* loadVerticalCS with the class of its neighbour
loadVerticalCS_CartesianClass == loadCoordinateSystem("CartesianCS")

loadVerticalCS == loadCoordinateSystem("VerticalCS")

loadSphericalCS == loadCoordinateSystem("SphericalCS")

loadGeodeticCRS ==
    Then(loadCoordinateReferenceSystem("GeodeticCRS"),
         <<Ref("geodeticDatum", "geodeticDatum"), Ref("ellipsoidalCS", "ellipsoidalCS")>>)

loadProjectedCRS ==
    Then(loadCoordinateReferenceSystem("ProjectedCRS"),
         <<Ref("baseGeodeticCRS", "baseGeodeticCRS"), Ref("cartesianCS", "cartesianCS")>>)

loadVerticalCRS ==
    Then(loadCoordinateReferenceSystem("VerticalCRS"),
         <<Ref("verticalDatum", "verticalDatum"), Ref("verticalCS", "verticalCS")>>)

loadEngineeringCRS ==
    Then(loadCoordinateReferenceSystem("EngineeringCRS"),
         <<Ref("coordinateSystem", "coordinateSystem"),
           Ref("engineeringDatum", "engineeringDatum")>>)

loadCompoundCRS == Then(loadCoordinateReferenceSystem("CompoundCRS"), <<Components>>)

\* the loop of loadCoordinateSystem with insert(0, axis) for append(axis)
RECURSIVE AxesFrom_Reversed(_, _, _, _)
AxesFrom_Reversed(r, element, i, depth) ==
    IF r.err # NoErr \/ i > Len(element.axis) THEN r
    ELSE IF element.axis[i] = None THEN Raise(r.self, "IndexError")
    ELSE LET g == __getitem__(r.self, element.axis[i], depth + 1)
         IN IF g.err # NoErr THEN Raise(g.self, g.err)
            ELSE AxesFrom_Reversed(Return(g.self, <<g.val>> \o r.val), element, i + 1, depth)

\* the loop of loadCoordinateSystem from the i-th axis node on: r.val is the
\* list built so far; an axis node without an identifier descendant is None
\* in element.axis and makes [0] raise IndexError
RECURSIVE AxesFrom(_, _, _, _)
AxesFrom(r, element, i, depth) ==
    IF r.err # NoErr \/ i > Len(element.axis) THEN r
    ELSE IF element.axis[i] = None THEN Raise(r.self, "IndexError")
    ELSE LET g == __getitem__(r.self, element.axis[i], depth + 1)
         IN IF g.err # NoErr THEN Raise(g.self, g.err)
            ELSE AxesFrom(Return(g.self, Append(r.val, g.val)), element, i + 1, depth)

\* the loop of loadCompoundCRS from the i-th componentReferenceSystem node
\* on; a node without the xlink:href attribute is None in element.component
\* and makes attributes['xlink:href'] raise KeyError
RECURSIVE ComponentsFrom(_, _, _, _)
ComponentsFrom(r, element, i, depth) ==
    IF r.err # NoErr \/ i > Len(element.component) THEN r
    ELSE IF element.component[i] = None THEN Raise(r.self, "KeyError")
    ELSE LET g == __getitem__(r.self, element.component[i], depth + 1)
         IN IF g.err # NoErr THEN Raise(g.self, g.err)
            ELSE ComponentsFrom(Return(g.self, Append(r.val, g.val)), element, i + 1, depth)

\* instance.<attr> = the list of the objects of the nodes
SetList(r, element, attr, depth) ==
    LET l == IF attr = "axes" THEN AxesFrom(Return(r.self, <<>>), element, 1, depth)
             ELSE ComponentsFrom(Return(r.self, <<>>), element, 1, depth)
    IN IF l.err # NoErr THEN l
       ELSE Return(l.self, [r.val EXCEPT !.list = (attr :> l.val) @@ @])

\* one assignment of a method; r.val is the instance
Assign(r, element, a, depth) ==
    CASE a.op = "text" -> SetText(r, element, a.attr, a.child)
      [] a.op = "float" -> SetFloat(r, element, a.attr, a.child)
      [] a.op = "date" -> SetDate(r, element, a.attr, a.child)
      [] a.op = "ref" -> SetRef(r, element, a.attr, a.child, depth)
      [] a.op \in {"axes", "components"} -> SetList(r, element, a.attr, depth)

\* the assignments of a method from the i-th on; an exception ends the method
RECURSIVE AssignFrom(_, _, _, _, _)
AssignFrom(r, element, assignments, i, depth) ==
    IF r.err # NoErr \/ i > Len(assignments) THEN r
    ELSE AssignFrom(Assign(r, element, assignments[i], depth), element, assignments, i + 1, depth)

\* loader(element) for a loader method: the instance is created with the
\* text of the first identifier of the element and then assigned to
Call(self, element, method, depth) ==
    AssignFrom(Return(self, NewInstance(method.class, getIdentifier(element))),
               element, method.assignments, 1, depth)

\* the tags T for which getattr(self, 'load' + T) is a method that takes the
\* element alone and builds an entity of class T
ConcreteTags ==
    {"PrimeMeridian", "Ellipsoid", "AreaOfUse", "GeodeticDatum", "VerticalDatum",
     "EngineeringDatum", "AxisName", "CoordinateSystemAxis", "EllipsoidalCS",
     "CartesianCS", "VerticalCS", "SphericalCS", "GeodeticCRS", "ProjectedCRS",
     "VerticalCRS", "EngineeringCRS", "CompoundCRS"}

\* the tags T for which 'load' + T is a method with a required class_
\* argument: loader(element) raises TypeError before the body runs
AbstractTags == {"Datum", "CoordinateSystem", "CoordinateReferenceSystem"}

\* getattr(self, 'load' + tag) for the tags whose method takes the element
\* alone (loadDictionaryEntry has a default class_)
getattr(tag) ==
    CASE tag = "PrimeMeridian" -> loadPrimeMeridian
      [] tag = "Ellipsoid" -> loadEllipsoid
      [] tag = "AreaOfUse" -> loadAreaOfUse
      [] tag = "GeodeticDatum" -> loadGeodeticDatum
      [] tag = "VerticalDatum" -> loadVerticalDatum
      [] tag = "EngineeringDatum" -> loadEngineeringDatum
      [] tag = "AxisName" -> loadAxisName
      [] tag = "CoordinateSystemAxis" -> loadCoordinateSystemAxis
      [] tag = "EllipsoidalCS" -> loadEllipsoidalCS
      [] tag = "CartesianCS" -> loadCartesianCS
      [] tag = "VerticalCS" -> loadVerticalCS
      [] tag = "SphericalCS" -> loadSphericalCS
      [] tag = "GeodeticCRS" -> loadGeodeticCRS
      [] tag = "ProjectedCRS" -> loadProjectedCRS
      [] tag = "VerticalCRS" -> loadVerticalCRS
      [] tag = "EngineeringCRS" -> loadEngineeringCRS
      [] tag = "CompoundCRS" -> loadCompoundCRS
      [] tag = "DictionaryEntry" -> loadDictionaryEntry("DictionaryEntry")

\* loadElement: 'load' + localName is looked up on the loader.  val is
\* NoObject when there is no such attribute.  'loadElement' itself is such an
\* attribute: for the tag Element the method calls itself without end.
loadElement(self, element, depth) ==
    IF depth > RecursionLimit THEN Raise(self, "RuntimeError")
    ELSE IF element.tag \in ConcreteTags \cup {"DictionaryEntry"}
         THEN Call(self, element, getattr(element.tag), depth)
    ELSE IF element.tag \in AbstractTags THEN Raise(self, "TypeError")
    ELSE IF element.tag = "Element" THEN loadElement(self, element, depth + 1)
    ELSE Return(self, NoObject)

\* the memo never consulted
MemoHit_Never(self, key) == FALSE

\* self.objects[key], as a test
MemoHit(self, key) == key \in DOMAIN self.objects

\* self.objects[key] = obj: the object gets the next identity of the heap
Register(self, key, obj) ==
    [objects |-> (key :> (Len(self.heap) + 1)) @@ self.objects,
     heap |-> Append(self.heap, obj)]

\* __getitem__ with the key entered in the memo before the index is consulted
__getitem___RegisterFirst(self, key, depth) ==
    IF depth > RecursionLimit THEN Raise(self, "RuntimeError")
    ELSE IF MemoHit(self, key) THEN Return(self, self.objects[key])
    ELSE IF key \notin DOMAIN xml THEN Raise(Register(self, key, NoObject), "KeyError")
    ELSE LET r == loadElement(self, xml[key], depth)
         IN IF r.err # NoErr THEN r
            ELSE IF r.val = NoObject THEN Raise(r.self, "KeyError")
            ELSE LET registered == Register(r.self, key, r.val)
                 IN Return(registered, registered.objects[key])

\* XMLLoader.__getitem__; val is the identity of the returned object
__getitem__(self, key, depth) ==
    IF depth > RecursionLimit THEN Raise(self, "RuntimeError")
    ELSE IF MemoHit(self, key) THEN Return(self, self.objects[key])
    ELSE IF key \notin DOMAIN xml THEN Raise(self, "KeyError")
    ELSE LET r == loadElement(self, xml[key], depth)
         IN IF r.err # NoErr THEN r
            ELSE IF r.val = NoObject THEN Raise(r.self, "KeyError")
            ELSE LET registered == Register(r.self, key, r.val)
                 IN Return(registered, registered.objects[key])

\* the loop of load leaving at the first KeyError instead of going on
RECURSIVE LoadFrom_StopAtKeyError(_, _, _)
LoadFrom_StopAtKeyError(self, keys, i) ==
    IF i > Len(keys) THEN Return(self, None)
    ELSE LET r == __getitem__(self, keys[i], 1)
         IN IF r.err = NoErr THEN LoadFrom_StopAtKeyError(r.self, keys, i + 1)
            ELSE IF r.err = "KeyError" THEN Return(r.self, None)
            ELSE Raise(r.self, r.err)

\* the loop of XMLLoader.load over the keys of the index in the order the
\* dictionary yields them, from the i-th key on
RECURSIVE LoadFrom(_, _, _)
LoadFrom(self, keys, i) ==
    IF i > Len(keys) THEN Return(self, None)
    ELSE LET r == __getitem__(self, keys[i], 1)
         IN IF r.err \in {NoErr, "KeyError"} THEN LoadFrom(r.self, keys, i + 1)
            ELSE Raise(r.self, r.err)

load(self, keys) == LoadFrom(self, keys, 1)

(***************************************************************************)
(* Documents: the Identifier Index (XML.map) of the documents considered   *)
(***************************************************************************)
DatumTags == {"GeodeticDatum", "VerticalDatum", "EngineeringDatum"}

CSTags == {"EllipsoidalCS", "CartesianCS", "VerticalCS", "SphericalCS"}

CRSTags == {"GeodeticCRS", "ProjectedCRS", "VerticalCRS", "EngineeringCRS", "CompoundCRS"}

\* tags of elements that carry an identifier and have no loader method
UnknownTags == {"Conversion"}

Tags == ConcreteTags \cup AbstractTags \cup UnknownTags \cup {"DictionaryEntry", "Element"}

\* the children with an xlink:href that the loader method of a tag reads, in
\* the order in which it reads them
RefChildren(tag) ==
    CASE tag = "GeodeticDatum" -> <<"domainOfValidity", "primeMeridian", "ellipsoid">>
      [] tag \in {"VerticalDatum", "EngineeringDatum"} -> <<"domainOfValidity">>
      [] tag = "CoordinateSystemAxis" -> <<"descriptionReference">>
      [] tag = "GeodeticCRS" -> <<"domainOfValidity", "geodeticDatum", "ellipsoidalCS">>
      [] tag = "ProjectedCRS" -> <<"domainOfValidity", "baseGeodeticCRS", "cartesianCS">>
      [] tag = "VerticalCRS" -> <<"domainOfValidity", "verticalDatum", "verticalCS">>
      [] tag = "EngineeringCRS" -> <<"domainOfValidity", "coordinateSystem", "engineeringDatum">>
      [] tag = "CompoundCRS" -> <<"domainOfValidity">>
      [] OTHER -> <<>>

\* the children whose text goes through _validate_float
FloatChildren(tag) ==
    CASE tag = "PrimeMeridian" -> {"greenwichLongitude"}
      [] tag = "Ellipsoid" -> {"semiMajorAxis", "semiMinorAxis", "inverseFlattening"}
      [] tag = "AreaOfUse" -> {"gmd:westBoundLongitude", "gmd:eastBoundLongitude",
                               "gmd:southBoundLatitude", "gmd:northBoundLatitude"}
      [] OTHER -> {}

\* the children whose text goes through _validate_date
DateChildren(tag) == IF tag \in DatumTags THEN {"realizationEpoch"} ELSE {}

Range(seq) == {seq[i] : i \in DOMAIN seq}

\* An element of the index: its tag, the texts of its descendants by name,
\* the xlink:href of its descendants by name, the identifier texts of its
\* axis nodes and the xlink:href of its componentReferenceSystem nodes.
\* The first reference the loader reads is r1 and every later one r2; the
\* validated texts are all well formed or all malformed.
Element(urn, tag, r1, r2, wellFormed) ==
    LET refs == RefChildren(tag)
        target(i) == IF i = 1 THEN r1 ELSE r2
        present == {i \in DOMAIN refs : target(i) # None}
    IN [tag |-> tag,
        text |-> [c \in FloatChildren(tag) |-> IF wellFormed THEN "7.0" ELSE "junk"]
                 @@ [c \in DateChildren(tag) |-> IF wellFormed THEN "1936-01-01" ELSE "junk"]
                 @@ [c \in {"identifier"} |-> urn]
                 @@ [c \in {"name"} |-> "name"],
        href |-> [c \in {refs[i] : i \in present} |->
                    target(CHOOSE i \in present : refs[i] = c)],
        axis |-> IF tag \in CSTags THEN <<r1, r2>> ELSE <<>>,
        component |-> IF tag = "CompoundCRS" THEN <<r1, r2>> ELSE <<>>]

\* the elements a URN can identify
Elements(urn) ==
    {Element(urn, "GeodeticDatum", r1, r2, w) : r1 \in Targets, r2 \in Targets, w \in BOOLEAN}
    \cup {Element(urn, t, r1, None, w) :
             t \in {"VerticalDatum", "EngineeringDatum"}, r1 \in Targets, w \in BOOLEAN}
    \cup {Element(urn, "CoordinateSystemAxis", r1, None, TRUE) : r1 \in Targets}
    \cup {Element(urn, t, r1, r2, TRUE) :
             t \in CSTags, r1 \in URNs \cup {None}, r2 \in URNs \cup {None}}
    \cup {Element(urn, t, r1, r2, TRUE) : t \in CRSTags, r1 \in Targets, r2 \in Targets}
    \cup {Element(urn, t, None, None, w) :
             t \in {"PrimeMeridian", "Ellipsoid", "AreaOfUse"}, w \in BOOLEAN}
    \cup {Element(urn, t, None, None, TRUE) :
             t \in AbstractTags \cup UnknownTags \cup {"AxisName", "DictionaryEntry", "Element"}}

\* the elements that accompany urn:1 in a document
Peers ==
    {Element("urn:2", "ProjectedCRS", "urn:3", "urn:1", TRUE),
     Element("urn:2", "VerticalDatum", "urn:3", None, TRUE),
     Element("urn:2", "AreaOfUse", None, None, FALSE),
     Element("urn:2", "Datum", None, None, TRUE)}

Leaves ==
    {Element("urn:3", "AreaOfUse", None, None, TRUE),
     Element("urn:3", "Conversion", None, None, TRUE)}

Documents ==
    {("urn:1" :> e1) @@ ("urn:2" :> e2) @@ ("urn:3" :> e3) :
        e1 \in Elements("urn:1"), e2 \in Peers, e3 \in Leaves}

(***************************************************************************)
(* The loader as a state machine                                           *)
(***************************************************************************)
Self == [objects |-> objects, heap |-> heap]

Init ==
    /\ xml \in Documents
    /\ objects = <<>>
    /\ heap = <<>>
    /\ result = [op |-> "new", key |-> None, err |-> NoErr, obj |-> 0, again |-> FALSE]
    /\ firstReturn = <<>>
    /\ dom = <<>>
    /\ db = [schema |-> FALSE, rows |-> <<>>]
    /\ other = [schema |-> FALSE, rows |-> <<>>]
    /\ transaction = NoTransaction

\* loader[key].  result records the call; firstReturn remembers the object
\* that the first successful loader[key] returned, and result.again whether
\* there was one before this call.
GetItem(key) ==
    LET r == __getitem__(Self, key, 1) IN
    /\ objects' = r.self.objects
    /\ heap' = r.self.heap
    /\ result' = [op |-> "getitem", key |-> key, err |-> r.err,
                  obj |-> IF r.err = NoErr THEN r.val ELSE 0,
                  again |-> key \in DOMAIN firstReturn]
    /\ firstReturn' = IF r.err = NoErr /\ key \notin DOMAIN firstReturn
                      THEN (key :> r.val) @@ firstReturn ELSE firstReturn
    /\ UNCHANGED <<xml, environment>>

\* the orders in which a dictionary can yield the keys of the index
KeyOrders == {s \in [1..Cardinality(DOMAIN xml) -> DOMAIN xml] : Range(s) = DOMAIN xml}

\* loader.load()
Load ==
    \E keys \in KeyOrders :
        LET r == load(Self, keys) IN
        /\ objects' = r.self.objects
        /\ heap' = r.self.heap
        /\ result' = [op |-> "load", key |-> None, err |-> r.err, obj |-> 0, again |-> FALSE]
        /\ UNCHANGED <<xml, firstReturn, environment>>

Next ==
    \/ \E key \in Keys : GetItem(key)
    \/ Load

Spec == Init /\ [][Next]_vars

(***************************************************************************)
(* The Identifier Index as a state machine: an XML object over a DOM, with *)
(* xml its map from URN to node                                            *)
(***************************************************************************)
TextNode(parent, data) == [tag |-> "#text", parent |-> parent, data |-> data]

ElementNode(parent, tag) == [tag |-> tag, parent |-> parent, data |-> <<>>]

\* the character data found in identifier elements
RawTexts ==
    {<<"A">>, <<" ", "A">>, <<"A", "\n">>, <<"B">>, <<"A", " ", "B">>, <<" ">>}

\* what an entity element holds for an identifier: no identifier element,
\* an empty one, one with a text node, or one with a text node followed by
\* a child element that has a text node of its own
IdentifierContents ==
    {[kind |-> "none"], [kind |-> "empty"]}
    \cup {[kind |-> "text", a |-> a] : a \in RawTexts}
    \cup {[kind |-> "mixed", a |-> a, b |-> b] : a \in {<<"A">>, <<" ">>}, b \in {<<" ", "B", " ">>, <<"A">>}}

\* the identifier element of the element at position parent, itself at
\* position at, with its descendants
IdentifierNodes(c, parent, at) ==
    CASE c.kind = "none" -> <<>>
      [] c.kind = "empty" -> <<ElementNode(parent, "identifier")>>
      [] c.kind = "text" -> <<ElementNode(parent, "identifier"), TextNode(at, c.a)>>
      [] c.kind = "mixed" ->
            <<ElementNode(parent, "identifier"), TextNode(at, c.a),
              ElementNode(at, "codeSpace"), TextNode(at + 2, c.b)>>

\* two sibling entity elements under the root
Siblings(c1, c2) ==
    LET first == <<ElementNode(0, "Dictionary"), ElementNode(1, "GeodeticDatum")>>
                 \o IdentifierNodes(c1, 2, 3)
        at == Len(first) + 1
    IN first \o <<ElementNode(1, "Ellipsoid")>> \o IdentifierNodes(c2, at, at + 1)

\* an entity element with an inline entity element after its identifier
InlineAfter(c1, c2) ==
    LET first == <<ElementNode(0, "Dictionary"), ElementNode(1, "CartesianCS")>>
                 \o IdentifierNodes(c1, 2, 3)
        at == Len(first) + 1
    IN first \o <<ElementNode(2, "CoordinateSystemAxis")>> \o IdentifierNodes(c2, at, at + 1)

\* an entity element with an inline entity element before its identifier
InlineBefore(c1, c2) ==
    LET first == <<ElementNode(0, "Dictionary"), ElementNode(1, "CartesianCS"),
                   ElementNode(2, "CoordinateSystemAxis")>>
                 \o IdentifierNodes(c2, 3, 4)
    IN first \o IdentifierNodes(c1, 2, Len(first) + 1)

Doms ==
    UNION {{Siblings(c1, c2), InlineAfter(c1, c2), InlineBefore(c1, c2)} :
              c1 \in IdentifierContents, c2 \in IdentifierContents}

\* the keys a caller passes to xml[key]
XMLKeys == {<<"A">>, <<"B">>, <<" ", "A">>, <<>>}

InitXML ==
    /\ dom \in Doms
    /\ xml = createMapping(dom)
    /\ objects = <<>>
    /\ heap = <<>>
    /\ result = [op |-> "new", key |-> None, err |-> NoErr, obj |-> 0, again |-> FALSE]
    /\ firstReturn = <<>>
    /\ db = [schema |-> FALSE, rows |-> <<>>]
    /\ other = [schema |-> FALSE, rows |-> <<>>]
    /\ transaction = NoTransaction

\* node is an ancestor of the node at position i
RECURSIVE IsDescendant(_, _, _)
IsDescendant(d, i, node) ==
    /\ d[i].parent # 0
    /\ (d[i].parent = node \/ IsDescendant(d, d[i].parent, node))

\* node.getElementsByTagName(name): the descendants of that name, in
\* document order
node_getElementsByTagName(d, node, name) ==
    SelectSeq([i \in 1..Len(d) |-> i],
              LAMBDA i : d[i].tag = name /\ IsDescendant(d, i, node))

\* the element at a node as the loader methods read it: for each name the
\* text of getElementsByTagName(name)[0].  The nodes of these documents have
\* no attributes and there is no axis and no componentReferenceSystem node.
ElementOf(d, node) ==
    [tag |-> d[node].tag,
     text |-> [c \in {d[i].tag : i \in {j \in DOMAIN d : IsDescendant(d, j, node) /\ d[j].tag # "#text"}} |->
                 getText(d, node_getElementsByTagName(d, node, c)[1])],
     href |-> <<>>, axis |-> <<>>, component |-> <<>>]

\* loadElement on a node of these documents.  A method that resolves a
\* reference calls self[None], the xlink:href being absent, which raises
\* KeyError; the other methods build the entity.
XMLLoader_loadElement(self, element) ==
    IF element.tag \notin ConcreteTags THEN Return(self, NoObject)
    ELSE IF RefChildren(element.tag) # <<>> THEN Raise(self, "KeyError")
    ELSE Call(self, element, getattr(element.tag), 1)

\* self.objects[key] = obj after loadElement
XMLLoader_register(self, key, r) ==
    IF r.err # NoErr THEN r
    ELSE IF r.val = NoObject THEN Raise(r.self, "KeyError")
    ELSE Return(Register(r.self, key, r.val), Len(r.self.heap) + 1)

\* XMLLoader.__getitem__ over the index of the DOM
XMLLoader_getitem(self, d, key) ==
    IF MemoHit(self, key) THEN Return(self, self.objects[key])
    ELSE IF key \notin DOMAIN xml THEN Raise(self, "KeyError")
    ELSE XMLLoader_register(self, key, XMLLoader_loadElement(self, ElementOf(d, xml[key])))

Got(key, r) ==
    /\ objects' = r.self.objects
    /\ heap' = r.self.heap
    /\ result' = [op |-> "getitem", key |-> key, err |-> r.err,
                  obj |-> IF r.err = NoErr THEN r.val ELSE 0, again |-> FALSE]
    /\ UNCHANGED <<xml, firstReturn, dom, db, other, transaction>>

\* loader[key] for the loader of the XML object
XMLLoaderGetItem(key) == Got(key, XMLLoader_getitem(Self, dom, key))

\* xml[key]: self.map[key]
XMLGetItem(key) ==
    /\ result' = [op |-> "xml.getitem", key |-> key,
                  err |-> IF key \in DOMAIN xml THEN NoErr ELSE "KeyError",
                  obj |-> IF key \in DOMAIN xml THEN xml[key] ELSE 0,
                  again |-> FALSE]
    /\ UNCHANGED <<xml, objects, heap, firstReturn, dom, db, other, transaction>>

\* len(xml): len(self.map)
XMLLen ==
    /\ result' = [op |-> "xml.len", key |-> None, err |-> NoErr,
                  obj |-> Cardinality(DOMAIN xml), again |-> FALSE]
    /\ UNCHANGED <<xml, objects, heap, firstReturn, dom, db, other, transaction>>

NextXML ==
    \/ \E key \in XMLKeys : XMLGetItem(key)
    \/ XMLLen
    \/ \E key \in XMLKeys : XMLLoaderGetItem(key)

SpecXML == InitXML /\ [][NextXML]_vars

(***************************************************************************)
(* epsg/__init__.py: the Registry.  A registry is a session on the         *)
(* database of its engine; the model follows the engine that the           *)
(* constructor creates by default, 'sqlite:///:memory:' (line 189).  A     *)
(* database is whether the tables of the schema exist and the stored       *)
(* entities by identifier (the primary key of every table).  A stored      *)
(* entity is a row: the columns of all its tables, its references as       *)
(* foreign keys and its lists as the rows of the association table, in     *)
(* the order of insertion, which is the order a table scan yields them in. *)
(* Neither foreign keys nor the class of a referenced row are checked by   *)
(* the database.                                                           *)
(*                                                                         *)
(* Every operator returns [self, err, val] with self the database after    *)
(* the call.  An entity outside the database is a value: the object with   *)
(* the entities it refers to in place of their identities.                 *)
(***************************************************************************)
\* a key that is no string: registry[42]
IntegerKey == "<int 42>"

\* isinstance(key, (str, unicode))
isinstance_str(key) == key \notin {IntegerKey, None}

\* a value that is no entity: registry[key] = 42
IntegerValue == [class |-> "int"]

\* isinstance(value, schema.Identifier)
isinstance_Identifier(value) == value.class \notin {"int", None}

\* the entity that a loader holds as object oid
RECURSIVE Entity(_, _)
Entity(self, oid) ==
    LET o == self.heap[oid]
    IN [o EXCEPT !.ref = [a \in DOMAIN o.ref |-> Entity(self, o.ref[a])],
                 !.list = [a \in DOMAIN o.list |->
                             [i \in DOMAIN o.list[a] |-> Entity(self, o.list[a][i])]]]

\* the primary key of an entity, None for no entity
PrimaryKey(v) == IF v = NoObject THEN None ELSE v.identifier

\* the row of an entity: the foreign key columns and the association rows
\* hold the identifiers of the referenced entities
RowOf(v) ==
    [v EXCEPT !.ref = [a \in DOMAIN v.ref |-> PrimaryKey(v.ref[a])],
              !.list = [a \in DOMAIN v.list |->
                          [i \in DOMAIN v.list[a] |-> PrimaryKey(v.list[a][i])]]]

\* the classes with the columns of DictionaryEntry
DictionaryEntryClasses == (ConcreteTags \ {"CoordinateSystemAxis"}) \cup {"DictionaryEntry"}

\* the String columns declared nullable=False, by class
NotNullTexts(class) ==
    (IF class \in DictionaryEntryClasses THEN {"name"} ELSE {})
    \cup (IF class \in DatumTags \cup CRSTags \cup CSTags THEN {"type"} ELSE {})
    \cup (IF class \in DatumTags \cup CRSTags THEN {"scope"} ELSE {})
    \cup (IF class = "CoordinateSystemAxis" THEN {"axisAbbrev", "axisDirection"} ELSE {})

\* the Float columns declared nullable=False, by class
NotNullValues(class) ==
    CASE class = "PrimeMeridian" -> {"greenwichLongitude"}
      [] class = "Ellipsoid" -> {"semiMajorAxis"}
      [] OTHER -> {}

\* INSERT or UPDATE of the row violates a NOT NULL constraint
ViolatesNotNull(row) ==
    \/ row.identifier = None
    \/ \E c \in NotNullTexts(row.class) : c \notin DOMAIN row.text \/ row.text[c] = None
    \/ \E c \in NotNullValues(row.class) : c \notin DOMAIN row.value \/ row.value[c] = <<>>

\* the rows without the one of key
Without(rows, key) == [k \in DOMAIN rows \ {key} |-> rows[k]]

\* session.merge(value, load=True): the state of value is copied onto the
\* entity with its primary key, which is created when there is none, and so
\* for every entity that value refers to (relationships cascade merge)
RECURSIVE merge(_, _)
RECURSIVE MergeRefs(_, _, _)
MergeRefs(rows, value, attrs) ==
    IF attrs = {} THEN rows
    ELSE LET attr == CHOOSE a \in attrs : TRUE
         IN MergeRefs(merge(rows, value.ref[attr]), value, attrs \ {attr})

RECURSIVE MergeList(_, _, _)
MergeList(rows, list, i) ==
    IF i > Len(list) THEN rows ELSE MergeList(merge(rows, list[i]), list, i + 1)

RECURSIVE MergeLists(_, _, _)
MergeLists(rows, value, attrs) ==
    IF attrs = {} THEN rows
    ELSE LET attr == CHOOSE a \in attrs : TRUE
         IN MergeLists(MergeList(rows, value.list[attr], 1), value, attrs \ {attr})

merge(rows, value) ==
    IF value = NoObject THEN rows
    ELSE MergeLists(MergeRefs((value.identifier :> RowOf(value)) @@ rows,
                              value, DOMAIN value.ref),
                    value, DOMAIN value.list)

\* the rows of a query for entities: an entity that several rows yield is in
\* the result once, at its first row
unique_list(s) ==
    LET keep == {i \in DOMAIN s : \A j \in 1..(i - 1) : s[j] # s[i]}
        nth(n) == CHOOSE i \in keep : Cardinality({j \in keep : j < i}) = n - 1
    IN [n \in 1..Cardinality(keep) |-> s[nth(n)]]

\* the entity loaded from the row of id: a reference is the entity of the
\* row with the foreign key (None when there is none), a list is the query
\* for the entities that join an association row
RECURSIVE Materialise(_, _)
Materialise(rows, id) ==
    LET row == rows[id]
    IN [row EXCEPT
          !.ref = [a \in DOMAIN row.ref |->
                     IF row.ref[a] \in DOMAIN rows THEN Materialise(rows, row.ref[a])
                     ELSE NoObject],
          !.list = [a \in DOMAIN row.list |->
                      LET joined == unique_list(SelectSeq(row.list[a],
                                                          LAMBDA t : t \in DOMAIN rows))
                      IN [i \in DOMAIN joined |-> Materialise(rows, joined[i])]]]

\* Registry.__getitem__ without the test of the key's type
Registry_getitem_NoTypeCheck(self, key) ==
    IF key \notin DOMAIN self.rows THEN Raise(self, "KeyError")
    ELSE Return(self, Materialise(self.rows, key))

\* Registry.__getitem__: the first entity with the identifier
Registry_getitem(self, key) ==
    IF ~isinstance_str(key) THEN Raise(self, "TypeError")
    ELSE IF key \notin DOMAIN self.rows THEN Raise(self, "KeyError")
    ELSE Return(self, Materialise(self.rows, key))

\* Registry.__delitem__ with the entity only expunged from the session
Registry_delitem_ExpungeOnly(self, key) ==
    IF Registry_getitem(self, key).err # NoErr THEN Registry_getitem(self, key)
    ELSE Return(self, None)

\* the statements of __delitem__ after value = self[key], whose exception
\* propagates: the row of the entity and its association rows are deleted
session_delete(self, key, value) ==
    IF value.err # NoErr THEN value
    ELSE Return([self EXCEPT !.rows = Without(self.rows, key)], None)

\* Registry.__delitem__
Registry_delitem(self, key) == session_delete(self, key, Registry_getitem(self, key))

\* the statements of pop after value = self[key]: KeyError gives the
\* default, otherwise del self[key] and return value
pop_value(self, key, value) ==
    IF value.err = "KeyError" THEN Return(self, None)
    ELSE IF value.err # NoErr THEN value
    ELSE Return(Registry_delitem(self, key).self, value.val)

\* MutableMapping.pop(key, None)
pop(self, key) == pop_value(self, key, Registry_getitem(self, key))

\* session.flush(): the rows are written; a NOT NULL violation raises
\* IntegrityError
flush(self) ==
    IF \E id \in DOMAIN self.rows : ViolatesNotNull(self.rows[id])
    THEN Raise(self, "IntegrityError")
    ELSE Return(self, None)

\* the end of a with session.begin() block: an exception rolls the
\* transaction back, to the database as it was at the last commit
rollback(committed, r) == IF r.err # NoErr THEN Raise(committed, r.err) ELSE r

\* the statements of __setitem__ after self.pop(key, None): value is merged
\* and the end of the with block flushes
session_merge(popped, value) ==
    IF popped.err # NoErr THEN popped
    ELSE flush([popped.self EXCEPT !.rows = merge(popped.self.rows, value)])

\* Registry.__setitem__: in one transaction, the entity of key is deleted if
\* there is one and value is merged under its own identifier
Registry_setitem(self, key, value) ==
    IF ~isinstance_str(key) THEN Raise(self, "TypeError")
    ELSE IF ~isinstance_Identifier(value) THEN Raise(self, "ValueError")
    ELSE rollback(self, session_merge(pop(self, key), value))

\* Registry.__len__
Registry_len(self) == Cardinality(DOMAIN self.rows)

\* the rows of a query over all entities, in the order the table yields them
RECURSIVE query(_)
query(keys) ==
    IF keys = {} THEN <<>>
    ELSE LET first == CHOOSE k \in keys : TRUE IN <<first>> \o query(keys \ {first})

\* Registry.__iter__: the identifier column
Registry_iter(self) == query(DOMAIN self.rows)

\* Registry.itervalues: the entities
itervalues(self) ==
    LET keys == query(DOMAIN self.rows)
    IN [i \in DOMAIN keys |-> Materialise(self.rows, keys[i])]

\* Registry.iteritems: (value.identifier, value) for the entities
iteritems(self) ==
    LET values == itervalues(self)
    IN [i \in DOMAIN values |-> <<values[i].identifier, values[i]>>]

\* Registry.__contains__ with the filter on the identifier left out
Registry_contains_Unfiltered(self, key) == Cardinality(DOMAIN self.rows) = 1

\* Registry.__contains__: the number of entities with the identifier is 1
Registry_contains(self, key) == Cardinality({id \in DOMAIN self.rows : id = key}) = 1

\* Registry.clear: every entity deleted by one query
clear(self) == Return([self EXCEPT !.rows = <<>>], None)

\* MutableMapping.update(other) from the i-th item on: self[key] = other[key]
\* for the keys of other in the order of its iteration; r is the assignment
\* before, whose exception ends the loop
RECURSIVE UpdateFrom(_, _, _)
UpdateFrom(r, items, i) ==
    IF r.err # NoErr \/ i > Len(items) THEN r
    ELSE UpdateFrom(Registry_setitem(r.self, items[i][1], items[i][2]), items, i + 1)

update(self, items) == UpdateFrom(Return(self, None), items, 1)

\* Registry.isInitialised: every table of the schema exists
isInitialised(self) == self.schema

\* the arguments for loader: None, False, or a mapping with its items in the
\* order of its iteration
LoaderNone == [kind |-> "None", items |-> <<>>]

LoaderFalse == [kind |-> "False", items |-> <<>>]

Mapping(items) == [kind |-> "mapping", items |-> items]

\* the truth value of a loader argument: a mapping is true when its len is
\* not 0
bool(loader) == loader.kind = "mapping" /\ Len(loader.items) > 0

\* XMLLoader(xml): nothing loaded yet
XMLLoader == [objects |-> <<>>, heap |-> <<>>]

\* the state of XMLLoader(xml) after load(), which ends with the first
\* exception
Loaded == load(XMLLoader, query(DOMAIN xml))

\* the items of a loader in the order keys
ItemsOf(self, keys) == [i \in DOMAIN keys |-> <<keys[i], Entity(self, self.objects[keys[i]])>>]

\* Registry.getLoader(): the export of the service is the document and
\* loaded is what loader.load() makes of it; its exception propagates
getLoader(loaded) ==
    IF loaded.err # NoErr THEN Raise(None, loaded.err)
    ELSE Return(None, Mapping(ItemsOf(loaded.self, query(DOMAIN loaded.self.objects))))

\* metadata.create_all after metadata.drop_all: the tables, without rows
Created == [schema |-> TRUE, rows |-> <<>>]

\* the transaction of Registry.init without drop_all
Recreate_NoDrop(self, loader) ==
    IF loader.kind = "False" THEN Return([self EXCEPT !.schema = TRUE], None)
    ELSE rollback([self EXCEPT !.schema = TRUE],
                  update([self EXCEPT !.schema = TRUE], loader.items))

\* the transaction of Registry.init: drop_all, create_all, update.  DROP
\* TABLE and CREATE TABLE are executed as they are issued and are no part of
\* the transaction (Python's sqlite3 opens a transaction before INSERT,
\* UPDATE and DELETE only); rollback undoes what update wrote.
Recreate(self, loader) ==
    IF loader.kind = "False" THEN Return(Created, None)
    ELSE rollback(Created, update(Created, loader.items))

\* Registry.init: for None the loader is default, the result of
\* self.getLoader(); then the transaction
init(self, loader, default) ==
    IF loader.kind = "None" /\ default.err # NoErr THEN Raise(self, default.err)
    ELSE Recreate(self, IF loader.kind = "None" THEN default.val ELSE loader)

\* what self.getLoader() returns or raises
DefaultLoader == getLoader(Loaded)

\* Registry.__init__ on the database of the engine
Registry___init__(self, loader, default) ==
    IF ~isInitialised(self) \/ bool(loader) THEN init(self, loader, default)
    ELSE Return(self, None)

(***************************************************************************)
(* The registry as a state machine: a registry on the database db, filled  *)
(* from the loader of a document or from a second registry on the database *)
(* other.                                                                  *)
(***************************************************************************)
\* the children whose text goes into a column declared nullable=False
RequiredChildren(tag) ==
    (IF tag \in DatumTags \cup CRSTags \cup CSTags THEN {"epsg:type"} ELSE {})
    \cup (IF tag \in DatumTags \cup CRSTags THEN {"scope"} ELSE {})
    \cup (IF tag = "CoordinateSystemAxis" THEN {"axisAbbrev", "axisDirection"} ELSE {})

\* the element with a text for every child in children
WithTexts(e, children) == [e EXCEPT !.text = [c \in children |-> "text"] @@ @]

\* an element with every required text
Complete(urn, tag, r1, r2) == WithTexts(Element(urn, tag, r1, r2, TRUE), RequiredChildren(tag))

\* a coordinate system with the axes list
CoordinateSystem(urn, tag, axes) == [Complete(urn, tag, None, None) EXCEPT !.axis = axes]

\* the element with an inline element, identified by urn, before its own
\* identifier child: the first identifier among its descendants is urn
InlineFirst(element, urn) == [element EXCEPT !.text["identifier"] = urn]

\* the axes of a coordinate system, both named by urn:4
AxisElements ==
    ("urn:2" :> Complete("urn:2", "CoordinateSystemAxis", "urn:4", None))
    @@ ("urn:3" :> Complete("urn:3", "CoordinateSystemAxis", "urn:4", None))
    @@ ("urn:4" :> Complete("urn:4", "AxisName", None, None))

\* the documents that registries are filled from: coordinate systems with
\* their axes in either order and with one axis twice, a datum and a
\* reference system with what they refer to, a datum without its epsg:type,
\* a datum whose area of use is missing from the document, an element on
\* which load() raises TypeError, an area of use with an inline element
\* whose identifier is that of another element of the document
RegistryDocuments ==
    {("urn:1" :> CoordinateSystem("urn:1", "CartesianCS", axes)) @@ AxisElements :
        axes \in {<<"urn:2", "urn:3">>, <<"urn:3", "urn:2">>, <<"urn:2", "urn:2">>}}
    \cup {("urn:1" :> Complete("urn:1", "GeodeticDatum", "urn:2", "urn:3"))
          @@ ("urn:2" :> Complete("urn:2", "AreaOfUse", None, None))
          @@ ("urn:3" :> Complete("urn:3", "PrimeMeridian", None, None)),
          ("urn:1" :> Complete("urn:1", "VerticalCRS", "urn:2", "urn:3"))
          @@ ("urn:2" :> Complete("urn:2", "AreaOfUse", None, None))
          @@ ("urn:3" :> CoordinateSystem("urn:3", "VerticalCS", <<>>)),
          ("urn:1" :> Element("urn:1", "VerticalDatum", "urn:2", None, TRUE))
          @@ ("urn:2" :> Complete("urn:2", "AreaOfUse", None, None)),
          ("urn:1" :> Complete("urn:1", "VerticalDatum", AbsentURN, None))
          @@ ("urn:2" :> Complete("urn:2", "AreaOfUse", None, None)),
          ("urn:1" :> Complete("urn:1", "AreaOfUse", None, None))
          @@ ("urn:2" :> Complete("urn:2", "Datum", None, None)),
          ("urn:1" :> InlineFirst(Complete("urn:1", "AreaOfUse", None, None), "urn:2"))
          @@ ("urn:2" :> Complete("urn:2", "AreaOfUse", None, None))}

\* the keys that the operations of a registry are called with
RegistryKeys == {"urn:1", "urn:2", "urn:3", AbsentURN, IntegerKey}

\* the keys deleted from the second registry
OtherKeys == {"urn:2"}

\* the sequence s in reverse
Reverse(s) == [i \in DOMAIN s |-> s[Len(s) + 1 - i]]

\* the orders in which the loader yields its keys
IterationOrders == {query(DOMAIN objects), Reverse(query(DOMAIN objects))}

\* the loader arguments of Registry(), init() and update(): None, False, the
\* loader, the second registry, a dictionary with a value that is no entity
LoaderArguments ==
    {LoaderNone, LoaderFalse, Mapping(<<<<"urn:1", IntegerValue>>>>)}
    \cup {Mapping(ItemsOf(Self, keys)) : keys \in IterationOrders}
    \cup (IF isInitialised(other) THEN {Mapping(iteritems(other))} ELSE {})

\* the values of registry[key] = value: an entity of the loader, or 42
Values == {Entity(Self, objects[k]) : k \in DOMAIN objects} \cup {IntegerValue}

NewDatabase == [schema |-> FALSE, rows |-> <<>>]

\* the call of a method of the registry, as result records it
Called(op, key, arg, r) ==
    [op |-> op, key |-> key, arg |-> arg, err |-> r.err, obj |-> r.val, again |-> FALSE]

InitRegistry ==
    /\ xml \in RegistryDocuments
    /\ objects = XMLLoader.objects
    /\ heap = XMLLoader.heap
    /\ result = [op |-> "new", key |-> None, err |-> NoErr, obj |-> 0, again |-> FALSE]
    /\ firstReturn = <<>>
    /\ dom = <<>>
    /\ db = NewDatabase
    /\ other = NewDatabase
    /\ transaction = NoTransaction

\* loader.load(), the dictionary yielding the keys in one order
LoaderLoad(loaded) ==
    /\ objects' = loaded.self.objects
    /\ heap' = loaded.self.heap
    /\ result' = Called("load", None, None, loaded)
    /\ UNCHANGED <<xml, firstReturn, environment>>

\* the call r of a method of the registry: the database after it and its
\* record
Registry_call(op, key, arg, r) ==
    /\ db' = r.self
    /\ result' = Called(op, key, arg, r)
    /\ UNCHANGED <<xml, objects, heap, firstReturn, dom, other, transaction>>

\* the call r of a method of the second registry
Other_call(op, key, arg, r) ==
    /\ other' = r.self
    /\ result' = Called(op, key, arg, r)
    /\ UNCHANGED <<xml, objects, heap, firstReturn, dom, db, transaction>>

\* registry = Registry(engine, loader)
RegistryNew(loader, default) ==
    Registry_call("Registry", None, loader, Registry___init__(db, loader, default))

\* registry[key]
RegistryGet(key) ==
    /\ isInitialised(db)
    /\ Registry_call("get", key, None, Registry_getitem(db, key))

\* registry[key] = value
RegistrySet(key, value) ==
    /\ isInitialised(db)
    /\ Registry_call("set", key, value, Registry_setitem(db, key, value))

\* del registry[key]
RegistryDelete(key) ==
    /\ isInitialised(db)
    /\ Registry_call("delete", key, None, Registry_delitem(db, key))

\* len(registry), list(registry), list(registry.itervalues()),
\* list(registry.iteritems())
RegistryIterate ==
    /\ isInitialised(db)
    /\ Registry_call("iterate", None, None,
                     Return(db, [len |-> Registry_len(db), keys |-> Registry_iter(db),
                                 values |-> itervalues(db), items |-> iteritems(db)]))

\* key in registry
RegistryContains(key) ==
    /\ isInitialised(db)
    /\ Registry_call("contains", key, None, Return(db, Registry_contains(db, key)))

\* registry.clear()
RegistryClear ==
    /\ isInitialised(db)
    /\ Registry_call("clear", None, None, clear(db))

\* registry.init(loader)
RegistryInit(loader, default) ==
    /\ isInitialised(db)
    /\ Registry_call("init", None, loader, init(db, loader, default))

\* registry.update(source)
RegistryUpdate(source) ==
    /\ isInitialised(db)
    /\ source.kind = "mapping"
    /\ Registry_call("update", None, source, update(db, source.items))

\* the second registry: Registry(engine2, loader)
OtherNew(loader) ==
    Other_call("other.Registry", None, loader,
               Registry___init__(other, loader, Raise(None, None)))

\* the second registry: del other[key]
OtherDelete(key) ==
    /\ isInitialised(other)
    /\ Other_call("other.delete", key, None, Registry_delitem(other, key))

NextRegistry ==
    \/ LoaderLoad(Loaded)
    \/ \E loader \in LoaderArguments : RegistryNew(loader, DefaultLoader)
    \/ \E key \in RegistryKeys : RegistryGet(key)
    \/ \E key \in RegistryKeys, value \in Values : RegistrySet(key, value)
    \/ \E key \in RegistryKeys : RegistryDelete(key)
    \/ RegistryIterate
    \/ \E key \in RegistryKeys : RegistryContains(key)
    \/ RegistryClear
    \/ \E loader \in LoaderArguments : RegistryInit(loader, DefaultLoader)
    \/ \E source \in LoaderArguments : RegistryUpdate(source)
    \/ \E keys \in IterationOrders : OtherNew(Mapping(ItemsOf(Self, keys)))
    \/ \E key \in OtherKeys : OtherDelete(key)

SpecRegistry == InitRegistry /\ [][NextRegistry]_vars

(***************************************************************************)
(* schema.py: assignment to a validated attribute of an entity.  heap      *)
(* holds the one entity; result records the last assignment.               *)
(***************************************************************************)
DatumClasses == {"Datum"} \cup DatumTags

ValidatedClasses == {"PrimeMeridian", "AreaOfUse", "Ellipsoid"} \cup DatumClasses

\* the attributes with the _validate_float listener
FloatAttributes(class_) ==
    CASE class_ = "PrimeMeridian" -> {"greenwichLongitude"}
      [] class_ = "AreaOfUse" -> {"westBoundLongitude", "eastBoundLongitude",
                                  "southBoundLatitude", "northBoundLatitude"}
      [] class_ = "Ellipsoid" -> {"semiMajorAxis", "semiMinorAxis", "inverseFlattening"}
      [] OTHER -> {}

\* the attribute with the _validate_date listener
DateAttributes(class_) == IF class_ \in DatumClasses THEN {"realizationEpoch"} ELSE {}

\* the 'set' listener of the attribute, called with the assigned value
listener(class_, attr, value) ==
    IF attr \in DateAttributes(class_) THEN _validate_date(value)
    ELSE _validate_float(value)

\* retval=True: the value the listener returns is the value that is set; an
\* exception of the listener leaves the attribute as it was
set(instance, attr, v) ==
    IF v.err # NoErr THEN Raise(instance, v.err)
    ELSE Return([instance EXCEPT !.value = (attr :> v.val) @@ @], None)

\* instance.<attr> = value
setattr(instance, attr, value) ==
    set(instance, attr, listener(instance.class, attr, value))

Dates == {<<1936, 1, 1>>, <<2000, 12, 31>>}

Hours == {0, 13}

\* texts that are assigned: the literals, and texts that neither float() nor
\* strptime parses
AssignedTexts == DateLiterals \cup FloatLiterals \cup {"junk", "01/01/1936", ""}

AssignedValues ==
    {NoneValue, PyInt(99), PyInt(7), PyFloat(-25), PyList(<<>>)}
        \cup {PyDate(d) : d \in Dates}
        \cup {PyDatetime(d, h) : d \in Dates, h \in Hours}
        \cup {PyStr(t) : t \in AssignedTexts}
        \cup {PyUnicode(t) : t \in AssignedTexts}

InitSchema ==
    /\ xml = <<>>
    /\ objects = <<>>
    /\ heap \in {<<NewInstance(class_, "urn:1")>> : class_ \in ValidatedClasses}
    /\ result = [op |-> "new", key |-> None, err |-> NoErr, obj |-> 0, again |-> FALSE]
    /\ firstReturn = <<>>
    /\ dom = <<>>
    /\ db = NewDatabase
    /\ other = NewDatabase
    /\ transaction = NoTransaction

Assigned(attr, value, r) ==
    /\ heap' = <<r.self>>
    /\ result' = Called("setattr", attr, value, r)
    /\ UNCHANGED <<xml, objects, firstReturn, dom, db, other, transaction>>

SetAttribute(attr, value) == Assigned(attr, value, setattr(heap[1], attr, value))

NextSchema ==
    \E attr \in FloatAttributes(heap[1].class) \cup DateAttributes(heap[1].class),
       value \in AssignedValues :
        SetAttribute(attr, value)

SpecSchema == InitSchema /\ [][NextSchema]_vars

(***************************************************************************)
(* __init__.py: registry[key] = value statement by statement, with a       *)
(* second session that reads the same database.  db is the database as     *)
(* committed, which is what another session reads; transaction is the      *)
(* transaction of the writing session: the statement it is at, the         *)
(* database as that session sees it, and the database as it was when the   *)
(* transaction began.                                                      *)
(***************************************************************************)
\* the session without the with block: autocommit=True commits every flush
session_begin_Autocommit(self, key, value) ==
    [pc |-> "pop", key |-> key, value |-> value, before |-> self, session |-> self,
     autocommit |-> TRUE]

\* with self.session.begin(subtransactions=True): the statements of the
\* block run in one transaction
session_begin(self, key, value) ==
    [pc |-> "pop", key |-> key, value |-> value, before |-> self, session |-> self,
     autocommit |-> FALSE]

\* the database as committed after a flush of the session
flushed(committed, t, session) == IF t.autocommit THEN session ELSE committed

Area(identifier, name) ==
    [NewInstance("AreaOfUse", identifier) EXCEPT !.text = [name |-> name]]

VerticalDatum(identifier, name, area) ==
    [NewInstance("VerticalDatum", identifier) EXCEPT
        !.text = [name |-> name, type |-> "vertical", scope |-> "scope"],
        !.ref = [domainOfValidity |-> area]]

\* the entities that are stored when the sessions start
StoredEntities ==
    {Area("urn:1", "old"), VerticalDatum("urn:1", "old", Area("urn:2", "old"))}

\* the values of registry[key] = value: entities with the identifier urn:1,
\* one of them without its name, an entity with another identifier, and 42
AssignedEntities ==
    {Area("urn:1", "new"), Area("urn:1", None), Area("urn:2", "new"),
     VerticalDatum("urn:1", "new", Area("urn:2", "new")), IntegerValue}

SessionKeys == {"urn:1", "urn:2", IntegerKey}

InitSessions ==
    /\ xml = <<>>
    /\ objects = <<>>
    /\ heap = <<>>
    /\ result = [op |-> "new", key |-> None, err |-> NoErr, obj |-> 0, again |-> FALSE]
    /\ firstReturn = <<>>
    /\ dom = <<>>
    /\ db \in {[schema |-> TRUE, rows |-> merge(<<>>, e)] : e \in StoredEntities}
    /\ other = NewDatabase
    /\ transaction = NoTransaction

\* a statement of the writing session: what it returns, its transaction and
\* the committed database after it
Statement(op, r, t, committed) ==
    /\ result' = Called(op, transaction.key, transaction.value, r)
    /\ transaction' = t
    /\ db' = committed
    /\ UNCHANGED <<xml, objects, heap, firstReturn, dom, other>>

\* registry[key] = value up to the with statement: the tests of the
\* arguments, then the transaction begins
SetBegin(key, value) ==
    /\ transaction = NoTransaction
    /\ result' = Called("set.begin", key, value,
                        IF ~isinstance_str(key) THEN Raise(db, "TypeError")
                        ELSE IF ~isinstance_Identifier(value) THEN Raise(db, "ValueError")
                        ELSE Return(db, None))
    /\ transaction' = IF isinstance_str(key) /\ isinstance_Identifier(value)
                      THEN session_begin(db, key, value)
                      ELSE NoTransaction
    /\ UNCHANGED <<xml, objects, heap, firstReturn, dom, db, other>>

Popped(r) ==
    Statement("set.pop", r, [transaction EXCEPT !.pc = "merge", !.session = r.self],
              flushed(db, transaction, r.self))

\* self.pop(key, None): the entity of key is deleted and the session flushed
SetPop ==
    /\ transaction.pc = "pop"
    /\ Popped(pop(transaction.session, transaction.key))

\* self.session.merge(value, load=True): value is pending in the session
SetMerge ==
    /\ transaction.pc = "merge"
    /\ Statement("set.merge", Return(transaction.session, None),
                 [transaction EXCEPT
                     !.pc = "commit",
                     !.session.rows = merge(transaction.session.rows, transaction.value)],
                 db)

Committed(r) ==
    /\ result' = Called("set", transaction.key, transaction.value,
                        IF r.err = NoErr THEN r ELSE Raise(db, r.err))
    /\ transaction' = NoTransaction
    /\ db' = IF r.err = NoErr THEN r.self ELSE db
    /\ UNCHANGED <<xml, objects, heap, firstReturn, dom, other>>

\* the end of the with block: the session is flushed and the transaction
\* committed, or rolled back when the flush raises
SetCommit ==
    /\ transaction.pc = "commit"
    /\ Committed(flush(transaction.session))

\* registry[key] in another session: the query reads the committed database
ReaderGet(key) ==
    /\ result' = Called("other.get", key, None, Registry_getitem(db, key))
    /\ UNCHANGED <<xml, objects, heap, firstReturn, dom, db, other, transaction>>

NextSessions ==
    \/ \E key \in SessionKeys, value \in AssignedEntities : SetBegin(key, value)
    \/ SetPop
    \/ SetMerge
    \/ SetCommit
    \/ \E key \in SessionKeys : ReaderGet(key)

SpecSessions == InitSessions /\ [][NextSessions]_vars

(***************************************************************************)
(* Vocabulary of the properties                                            *)
(***************************************************************************)
\* the URNs that the loader method of an element resolves
Hrefs(e) == {getFirstChildAttributeValue(e, c) : c \in Range(RefChildren(e.tag))}

References(e) == Hrefs(e) \cup Range(e.axis) \cup Range(e.component)

\* every validated text of the element is absent or well formed
ScalarsWellFormed(e) ==
    /\ \A c \in FloatChildren(e.tag) :
          getFirstChildNodeText(e, c) \in FloatLiterals \cup {None}
    /\ \A c \in DateChildren(e.tag) :
          getFirstChildNodeText(e, c) \in DateLiterals \cup {None}

\* a required xlink:href of the element is missing or names a URN that is
\* not in the index
MalformedReference(u) ==
    /\ u \in DOMAIN xml
    /\ xml[u].tag \in ConcreteTags
    /\ \E t \in Hrefs(xml[u]) \cup Range(xml[u].component) : t \notin DOMAIN xml

\* the entities of the document that can be built: the least set closed
\* under "has a construction rule, well-formed scalars, and every referenced
\* URN is in the set"
Buildable(u, S) ==
    /\ xml[u].tag \in ConcreteTags \cup {"DictionaryEntry"}
    /\ ScalarsWellFormed(xml[u])
    /\ References(xml[u]) \subseteq S

RECURSIVE Closure(_, _)
Closure(S, n) ==
    IF n = 0 THEN S ELSE Closure({u \in DOMAIN xml : Buildable(u, S)}, n - 1)

Constructible == Closure({}, Cardinality(DOMAIN xml))

\* A and B are loadable entities that reference each other, and everything
\* else they reference is a constructible entity
ReferenceCycle(A, B) ==
    /\ A \in DOMAIN xml /\ B \in DOMAIN xml /\ A # B
    /\ xml[A].tag \in ConcreteTags /\ xml[B].tag \in ConcreteTags
    /\ ScalarsWellFormed(xml[A]) /\ ScalarsWellFormed(xml[B])
    /\ B \in References(xml[A]) /\ A \in References(xml[B])
    /\ A \notin References(xml[A]) /\ B \notin References(xml[B])
    /\ (References(xml[A]) \cup References(xml[B])) \ {A, B} \subseteq Constructible

\* the objects an entity refers to
Referents(o) == Range(o.ref) \cup UNION {Range(o.list[a]) : a \in DOMAIN o.list}

(***************************************************************************)
(* C1: within one loader, two successful loader[u] return the same object, *)
(* whatever loader[u'] and load() calls came before or between them.       *)
(***************************************************************************)
C1_SameObject ==
    (result.op = "getitem" /\ result.err = NoErr)
        => /\ result.key \in DOMAIN firstReturn
           /\ result.obj = firstReturn[result.key]
           /\ objects[result.key] = firstReturn[result.key]

C1_Witness ==
    /\ result.op = "getitem" /\ result.err = NoErr /\ result.again
    /\ Cardinality(DOMAIN objects) >= 2

(***************************************************************************)
(* C2: for entities A and B that reference each other, loader[A] returns,  *)
(* and afterwards A refers to the object of B and B to the object of A.    *)
(***************************************************************************)
C2_CycleSafe ==
    \A A, B \in URNs :
        (result.op = "getitem" /\ result.key = A /\ ReferenceCycle(A, B))
            => /\ result.err = NoErr
               /\ A \in DOMAIN objects /\ B \in DOMAIN objects
               /\ objects[B] \in Referents(heap[objects[A]])
               /\ objects[A] \in Referents(heap[objects[B]])

(***************************************************************************)
(* C3: two distinct registered entities whose domainOfValidity children    *)
(* name the same URN have the same object as domainOfValidity.             *)
(***************************************************************************)
SameArea(u1, u2) ==
    /\ u1 \in DOMAIN objects /\ u2 \in DOMAIN objects /\ u1 # u2
    /\ xml[u1].tag \in DatumTags \cup CRSTags
    /\ xml[u2].tag \in DatumTags \cup CRSTags
    /\ getFirstChildAttributeValue(xml[u1], "domainOfValidity")
         = getFirstChildAttributeValue(xml[u2], "domainOfValidity")

C3_SharedArea ==
    \A u1, u2 \in URNs :
        SameArea(u1, u2)
            => heap[objects[u1]].ref["domainOfValidity"]
                 = heap[objects[u2]].ref["domainOfValidity"]

C3_Witness ==
    \E u1, u2 \in URNs :
        /\ SameArea(u1, u2)
        /\ xml[getFirstChildAttributeValue(xml[u1], "domainOfValidity")].tag = "AreaOfUse"
        /\ heap[heap[objects[u1]].ref["domainOfValidity"]].class = "AreaOfUse"

(***************************************************************************)
(* C4: loader[u] for a u that is not a key of the index raises KeyError    *)
(* and leaves the memo as it was.                                          *)
(***************************************************************************)
C4_AbsentKey ==
    [][(result'.op = "getitem" /\ result'.key \notin DOMAIN xml)
          => (result'.err = "KeyError" /\ objects' = objects /\ heap' = heap)]_vars

C4_Witness ==
    /\ result.op = "getitem" /\ result.key \notin DOMAIN xml /\ result.err = "KeyError"
    /\ objects # <<>>

(***************************************************************************)
(* C5: loader[u] for an indexed element whose tag is not the name of a     *)
(* loadable variant raises KeyError and nothing else, and load() does not  *)
(* abort on such an element.                                               *)
(***************************************************************************)
C5_UnrecognizedTag ==
    /\ (result.op = "getitem" /\ result.key \in DOMAIN xml
          /\ xml[result.key].tag \notin ConcreteTags)
          => result.err = "KeyError"
    /\ (result.op = "load"
          /\ \A u \in DOMAIN xml : xml[u].tag \in ConcreteTags => u \in Constructible)
          => result.err = NoErr

(***************************************************************************)
(* C6: an entity with a missing or dangling required reference is never    *)
(* registered, loader[u] on it raises, and no registered entity lacks one  *)
(* of its reference fields.                                                *)
(***************************************************************************)
C6_MalformedReferenceFails ==
    /\ \A u \in URNs : MalformedReference(u) => u \notin DOMAIN objects
    /\ (result.op = "getitem" /\ MalformedReference(result.key)) => result.err # NoErr
    /\ \A u \in DOMAIN objects :
          Range(RefChildren(heap[objects[u]].class)) \subseteq DOMAIN heap[objects[u]].ref

C6_Witness ==
    /\ result.op = "getitem" /\ MalformedReference(result.key) /\ result.err # NoErr
    /\ objects # <<>>

(***************************************************************************)
(* C7: when load() has returned, the memo holds exactly the constructible  *)
(* entities of the document, each under its URN; the memo is never larger  *)
(* than the index.                                                         *)
(***************************************************************************)
C7_LoadComplete ==
    /\ (result.op = "load" /\ result.err = NoErr)
          => /\ DOMAIN objects = Constructible
             /\ \A u \in DOMAIN objects : objects[u] \in DOMAIN heap
    /\ Cardinality(DOMAIN objects) <= Cardinality(DOMAIN xml)

C7_Witness ==
    /\ result.op = "load" /\ result.err = NoErr
    /\ Cardinality(DOMAIN objects) = 2
    /\ \E u \in DOMAIN xml \ DOMAIN objects : xml[u].tag \in UnknownTags

(***************************************************************************)
(* C8: load() does not return normally from a document in which an entity  *)
(* has a malformed reference or a malformed scalar.                        *)
(***************************************************************************)
C8_LoadPropagates ==
    (result.op = "load"
       /\ \E u \in DOMAIN xml :
             \/ MalformedReference(u)
             \/ xml[u].tag \in ConcreteTags /\ ~ScalarsWellFormed(xml[u]))
        => result.err # NoErr

(***************************************************************************)
(* C9: the error of loader[u] for an entity with an unresolvable reference *)
(* is not the error of an unknown identifier (KeyError).                   *)
(***************************************************************************)
C9_DistinctErrors ==
    (result.op = "getitem" /\ MalformedReference(result.key)
       /\ ScalarsWellFormed(xml[result.key]))
        => result.err \notin {NoErr, "KeyError"}

(***************************************************************************)
(* C10: a registered or returned entity whose element has the concrete     *)
(* tag T is of class T.                                                    *)
(***************************************************************************)
C10_ClassIsTag ==
    /\ \A u \in DOMAIN objects :
          xml[u].tag \in ConcreteTags => heap[objects[u]].class = xml[u].tag
    /\ (result.op = "getitem" /\ result.err = NoErr /\ xml[result.key].tag \in ConcreteTags)
          => heap[result.obj].class = xml[result.key].tag

C10_Witness ==
    /\ result.op = "getitem" /\ result.err = NoErr
    /\ xml[result.key].tag \in CSTags
    /\ Cardinality({heap[i].class : i \in DOMAIN heap}) = 3

(***************************************************************************)
(* C11: the axes of a registered coordinate system are the objects of its  *)
(* axis nodes, one per node and in document order, whatever was resolved   *)
(* before.                                                                 *)
(***************************************************************************)
C11_OrderedAxes ==
    \A u \in DOMAIN objects :
        xml[u].tag \in CSTags
            => LET axes == heap[objects[u]].list["axes"]
               IN /\ Len(axes) = Len(xml[u].axis)
                  /\ \A i \in DOMAIN axes :
                        /\ xml[u].axis[i] \in DOMAIN objects
                        /\ axes[i] = objects[xml[u].axis[i]]

\* a coordinate system whose second axis was resolved before its first
C11_Witness ==
    \E u \in DOMAIN objects :
        /\ xml[u].tag \in CSTags
        /\ Len(heap[objects[u]].list["axes"]) = 2
        /\ heap[objects[u]].list["axes"][1] > heap[objects[u]].list["axes"][2]

(***************************************************************************)
(* C12: the index maps the trimmed text of every identifier element to the *)
(* parent of the last identifier element with that text, and len counts    *)
(* every URN once.                                                         *)
(***************************************************************************)
IdentifierElements == {i \in DOMAIN dom : dom[i].tag = "identifier"}

C12_LastWins ==
    /\ DOMAIN xml = {getText(dom, i) : i \in IdentifierElements}
    /\ \A u \in DOMAIN xml :
          u = <<>> \/ (u[1] \notin Whitespace /\ u[Len(u)] \notin Whitespace)
    /\ \A i \in IdentifierElements :
          (\A j \in IdentifierElements : j > i => getText(dom, j) # getText(dom, i))
              => xml[getText(dom, i)] = dom[i].parent
    /\ result.op = "xml.len"
          => result.obj = Cardinality({getText(dom, i) : i \in IdentifierElements})

\* two identifier elements with different character data and the same
\* trimmed text, under different parents, and len taken
C12_Witness ==
    /\ result.op = "xml.len" /\ result.obj = 1
    /\ \E i, j \in IdentifierElements :
          /\ i < j
          /\ dom[i].parent # dom[j].parent
          /\ JoinText(dom, childNodes(dom, i), 1) # JoinText(dom, childNodes(dom, j), 1)
          /\ getText(dom, i) = getText(dom, j)
          /\ getText(dom, i) # <<>>

(***************************************************************************)
(* C13: registry[key] raises TypeError for a key that is no string and     *)
(* KeyError for a string without a stored entity; otherwise it returns the *)
(* stored entity of the key, of the concrete class it was stored with.     *)
(* The store is left as it was in every case.                              *)
(***************************************************************************)
C13_Get ==
    [][result'.op = "get"
          => /\ db' = db
             /\ result'.err =
                   IF ~isinstance_str(result'.key) THEN "TypeError"
                   ELSE IF result'.key \notin DOMAIN db.rows THEN "KeyError"
                   ELSE NoErr
             /\ result'.err = NoErr
                   => /\ result'.obj.identifier = result'.key
                      /\ result'.obj.class = db.rows[result'.key].class
                      /\ result'.obj.class \in ConcreteTags
                      /\ result'.obj.text = db.rows[result'.key].text
                      /\ result'.obj.value = db.rows[result'.key].value]_vars

C13_Witness ==
    /\ result.op = "get" /\ result.err = NoErr
    /\ result.obj.class = "VerticalCRS"
    /\ result.obj.ref["verticalCS"].class = "VerticalCS"

(***************************************************************************)
(* C14: after registry[id] = e for an entity e with the identifier id,     *)
(* registry[id] is an entity equal to e in every field, the order of the   *)
(* axes included, whether or not id was in the registry before.            *)
(***************************************************************************)
C14_SetThenGet ==
    [][(result'.op = "set" /\ result'.err = NoErr /\ result'.arg.identifier = result'.key)
          => /\ Registry_getitem(db', result'.key).err = NoErr
             /\ Registry_getitem(db', result'.key).val = result'.arg]_vars

C16_Consistent ==
    /\ result.op = "iterate"
          => /\ Len(result.obj.keys) = result.obj.len
             /\ Len(result.obj.values) = result.obj.len
             /\ Len(result.obj.items) = result.obj.len
             /\ Cardinality(Range(result.obj.keys)) = result.obj.len
             /\ \A i \in DOMAIN result.obj.items :
                   /\ result.obj.items[i][2].identifier = result.obj.items[i][1]
                   /\ result.obj.items[i][1] \in Range(result.obj.keys)
                   /\ result.obj.items[i][2] \in Range(result.obj.values)
    /\ result.op = "contains"
          => (result.obj <=> Registry_getitem(db, result.key).err = NoErr)

\* a filled registry that lost the entity of urn:2 was iterated
C16_Witness ==
    /\ result.op = "iterate" /\ result.obj.len = 3
    /\ "urn:2" \notin DOMAIN db.rows
    /\ "urn:4" \in DOMAIN db.rows

(***************************************************************************)
(* C17: registry.init(L) that returns leaves the registry with the         *)
(* entities of L and nothing else: the keys of the registry are the keys   *)
(* of L, its count is len(L), each key holds the entity L has for it.      *)
(* registry.init(False) leaves the registry empty.  L is the default       *)
(* loader when the argument is None.                                       *)
(***************************************************************************)
C17_Init ==
    [][(result'.op = "init" /\ result'.err = NoErr)
          => LET L == IF result'.arg.kind = "None" THEN DefaultLoader.val ELSE result'.arg
             IN IF L.kind = "False"
                THEN Registry_len(db') = 0 /\ Registry_iter(db') = <<>>
                ELSE /\ DOMAIN db'.rows = {L.items[i][1] : i \in DOMAIN L.items}
                     /\ Registry_len(db') = Len(L.items)
                     /\ \A i \in DOMAIN L.items :
                           db'.rows[L.items[i][1]] = RowOf(L.items[i][2])]_vars

\* the registry was initialised from the second registry, which had lost
\* urn:2, while the loader holds four entities
C17_Witness ==
    /\ result.op = "init" /\ result.err = NoErr /\ result.arg.kind = "mapping"
    /\ Len(result.arg.items) = 3
    /\ DOMAIN db.rows = {"urn:1", "urn:3", "urn:4"}
    /\ Cardinality(DOMAIN objects) = 4

\* C17 for the sources whose entities carry their key as identifier
C17_InitIdentified ==
    [][(result'.op = "init" /\ result'.err = NoErr)
          => LET L == IF result'.arg.kind = "None" THEN DefaultLoader.val ELSE result'.arg
             IN (\A i \in DOMAIN L.items : RowOf(L.items[i][2]).identifier = L.items[i][1])
                   => IF L.kind = "False"
                      THEN Registry_len(db') = 0 /\ Registry_iter(db') = <<>>
                      ELSE /\ DOMAIN db'.rows = {L.items[i][1] : i \in DOMAIN L.items}
                           /\ Registry_len(db') = Len(L.items)
                           /\ \A i \in DOMAIN L.items :
                                 db'.rows[L.items[i][1]] = RowOf(L.items[i][2])]_vars

\* the registry was initialised from a loader that holds two entities with
\* the identifier urn:2 and has one entity
C17_SharedIdentifier ==
    /\ result.op = "init" /\ result.err = NoErr /\ result.arg.kind = "mapping"
    /\ Len(result.arg.items) = 2
    /\ \A i \in DOMAIN result.arg.items : RowOf(result.arg.items[i][2]).identifier = "urn:2"
    /\ DOMAIN db.rows = {"urn:2"}

(***************************************************************************)
(* C18: registry.init(L) that raises after it has started leaves the       *)
(* registry with exactly the entities it held before the call: none is     *)
(* lost and none of L is stored.                                           *)
(***************************************************************************)
C18_InitAtomic ==
    [][(result'.op = "init" /\ result'.err # NoErr) => db' = db]_vars

(***************************************************************************)
(* C19: after target.update(source) for a registry or a loaded loader      *)
(* source, every key of source is a key of target and target[key] equals   *)
(* source[key]; if target was empty before, target has the keys and the    *)
(* count of source.                                                        *)
(***************************************************************************)
C19_Update ==
    [][(result'.op = "update" /\ result'.err = NoErr)
          => LET items == result'.arg.items
             IN /\ \A i \in DOMAIN items :
                      /\ Registry_contains(db', items[i][1])
                      /\ Registry_getitem(db', items[i][1]).val = items[i][2]
                /\ db.rows = <<>>
                      => /\ DOMAIN db'.rows = {items[i][1] : i \in DOMAIN items}
                         /\ Registry_len(db') = Len(items)]_vars

(***************************************************************************)
(* C20: Registry(engine, loader=L) for a registry or a loader L returns a  *)
(* registry with the keys of L, whatever L holds, an empty L included, and *)
(* whatever the database of the engine held before; Registry(engine) with  *)
(* loader=None initialises the database only if its schema is missing.     *)
(***************************************************************************)
C20_Copy ==
    [][(result'.op = "Registry" /\ result'.err = NoErr)
          => /\ result'.arg.kind = "mapping"
                   => DOMAIN db'.rows = {result'.arg.items[i][1] : i \in DOMAIN result'.arg.items}
             /\ (result'.arg.kind = "None" /\ isInitialised(db)) => db' = db
             /\ (result'.arg.kind = "None" /\ ~isInitialised(db))
                   => DOMAIN db'.rows = {DefaultLoader.val.items[i][1] :
                                            i \in DOMAIN DefaultLoader.val.items}]_vars

\* the date that an assigned value denotes: a date, a datetime on that
\* calendar date, the 'YYYY-MM-DD' string of the date
Denotes(value, d) ==
    \/ value = PyDate(d)
    \/ value.type = "datetime" /\ value.date = d
    \/ value \in {PyStr(isoformat(d)), PyUnicode(isoformat(d))}

\* the last step assigned value to realizationEpoch
AssignedDate(r) == r.op = "setattr" /\ r.key = "realizationEpoch"

(***************************************************************************)
(* C21: assigning to realizationEpoch a date d, a datetime whose calendar  *)
(* date is d, or the 'YYYY-MM-DD' string of d stores the same date d;      *)
(* assigning null stores null.                                             *)
(***************************************************************************)
C21_DateCoercion ==
    [][AssignedDate(result')
          => /\ \A d \in Dates :
                   Denotes(result'.arg, d)
                      => /\ result'.err = NoErr
                         /\ heap'[1].value["realizationEpoch"] = d
             /\ result'.arg = NoneValue
                   => /\ result'.err = NoErr
                      /\ heap'[1].value["realizationEpoch"] = <<>>]_vars

\* a datetime in the afternoon was assigned and its calendar date is stored
C21_Witness ==
    /\ AssignedDate(result)
    /\ result.arg = PyDatetime(<<2000, 12, 31>>, 13)
    /\ result.err = NoErr
    /\ heap[1].value["realizationEpoch"] = <<2000, 12, 31>>

\* the Python exceptions with which a validator rejects a value: TypeError
\* raised by the validator or by float(), ValueError raised by float() or
\* strptime for a text they cannot parse
TypeCoercionError == {"TypeError", "ValueError"}

\* a text in the form YYYY-MM-DD: four, two and two digits
IsYYYYMMDD(text) == text \in {isoformat(d) : d \in Dates}

\* a date (a datetime is one), a YYYY-MM-DD string or null
DateLike(value) ==
    \/ isinstance_date(value)
    \/ value = NoneValue
    \/ isinstance_basestring(value) /\ IsYYYYMMDD(value.v)

(***************************************************************************)
(* C22: assigning to realizationEpoch any value that is not a date, a      *)
(* 'YYYY-MM-DD' string or null fails with a type error and leaves the      *)
(* previous value of the field unchanged.                                  *)
(***************************************************************************)
C22_Rejected ==
    [][(AssignedDate(result') /\ ~DateLike(result'.arg))
          => /\ result'.err \in TypeCoercionError
             /\ heap' = heap]_vars

\* what does hold: a value that is not a date, not null and not a text that
\* strptime parses is rejected and the field keeps its value
C22_RejectedUnlessParsed ==
    [][(AssignedDate(result') /\ ~DateLike(result'.arg)
          /\ ~(isinstance_basestring(result'.arg) /\ result'.arg.v \in DateLiterals))
          => /\ result'.err \in TypeCoercionError
             /\ heap' = heap]_vars

\* the text 1936-1-1 was assigned over another date and is stored as a date
C22_Accepted ==
    /\ AssignedDate(result)
    /\ result.arg = PyStr("1936-1-1")
    /\ result.err = NoErr
    /\ heap[1].value["realizationEpoch"] = <<1936, 1, 1>>

\* the last step assigned a value to a Float attribute
AssignedFloat(r) ==
    /\ r.op = "setattr"
    /\ r.key \in FloatAttributes(heap[1].class)

\* a number, or a text that is a numeric literal
IsNumber(value) == value.type \in {"int", "float"}

IsNumericLiteral(value) == isinstance_basestring(value) /\ value.v \in FloatLiterals

\* the number, in tenths, that a number or a numeric literal stands for
NumberOf(value) ==
    IF value.type = "int" THEN 10 * value.v
    ELSE IF value.type = "float" THEN value.v
    ELSE FloatOf(value.v)

DeclaredClass(attr) ==
    CASE attr = "domainOfValidity" -> "AreaOfUse"
      [] attr = "primeMeridian" -> "PrimeMeridian"
      [] attr = "ellipsoid" -> "Ellipsoid"
      [] attr = "ellipsoidalCS" -> "EllipsoidalCS"
      [] attr = "geodeticDatum" -> "GeodeticDatum"
      [] attr = "axes" -> "CoordinateSystemAxis"
      [] attr = "descriptionReference" -> "AxisName"
      [] attr = "baseGeodeticCRS" -> "CoordinateReferenceSystem"
      [] attr = "cartesianCS" -> "CartesianCS"
      [] attr = "verticalDatum" -> "VerticalDatum"
      [] attr = "verticalCS" -> "VerticalCS"
      [] attr = "coordinateSystem" -> "CoordinateSystem"
      [] attr = "engineeringDatum" -> "EngineeringDatum"
      [] attr = "componentReferenceSystems" -> "CoordinateReferenceSystem"

\* a class and the classes derived from it
Subclasses(class_) ==
    CASE class_ = "CoordinateReferenceSystem" -> {class_} \cup CRSTags
      [] class_ = "CoordinateSystem" -> {class_} \cup CSTags
      [] class_ = "Datum" -> {class_} \cup DatumTags
      [] OTHER -> {class_}

\* the object o of the heap refers, in every field, to objects of the
\* declared class
RefersToDeclared(o) ==
    /\ \A a \in DOMAIN o.ref : heap[o.ref[a]].class \in Subclasses(DeclaredClass(a))
    /\ \A a \in DOMAIN o.list :
          \A i \in DOMAIN o.list[a] :
             heap[o.list[a][i]].class \in Subclasses(DeclaredClass(a))

(***************************************************************************)
(* C24: for every entity in the memo and every object-valued reference     *)
(* field of it, the referenced entity is of the variant the field is       *)
(* declared with or of a subtype of it, whatever variant the element of    *)
(* the referenced URN has in the document.                                 *)
(***************************************************************************)
C24_DeclaredVariant == \A u \in DOMAIN objects : RefersToDeclared(heap[objects[u]])

\* what does hold: a reference field holds the entity that the memo holds
\* for the URN the document names, of the class the tag of that element has
C24_VariantOfElement ==
    \A u \in DOMAIN objects :
       \A a \in DOMAIN heap[objects[u]].ref :
          \E t \in DOMAIN objects :
             /\ objects[t] = heap[objects[u]].ref[a]
             /\ heap[objects[t]].class = xml[t].tag

\* the assignment a of a loader method was made to the object o built from
\* the element e
Made(o, e, a) ==
    CASE a.op = "text" -> a.attr \in DOMAIN o.text
      [] a.op \in {"float", "date"} -> a.attr \in DOMAIN o.value
      [] a.op = "ref" -> a.attr \in DOMAIN o.ref /\ o.ref[a.attr] \in DOMAIN heap'
      [] a.op = "axes" -> a.attr \in DOMAIN o.list /\ Len(o.list[a.attr]) = Len(e.axis)
      [] a.op = "components" ->
            a.attr \in DOMAIN o.list /\ Len(o.list[a.attr]) = Len(e.component)

\* the entry of the memo under u, after the step, is an entity on which the
\* loader method of its element ran to its end
FullyConstructed(u) ==
    /\ u \in DOMAIN xml
    /\ xml[u].tag \in ConcreteTags \cup {"DictionaryEntry"}
    /\ heap'[objects'[u]] # NoObject
    /\ \A i \in DOMAIN getattr(xml[u].tag).assignments :
          Made(heap'[objects'[u]], xml[u], getattr(xml[u].tag).assignments[i])

(***************************************************************************)
(* C26: a resolve that fails removes, replaces and changes no entry that   *)
(* was in the memo before it; every entry it adds is a fully constructed   *)
(* entity.  The memo only grows, and with complete entities.               *)
(***************************************************************************)
C26_MemoOnlyGrows ==
    [][(result'.op = "getitem" /\ result'.err # NoErr)
          => /\ \A u \in DOMAIN objects :
                   u \in DOMAIN objects' /\ objects'[u] = objects[u]
             /\ \A i \in DOMAIN heap : i \in DOMAIN heap' /\ heap'[i] = heap[i]
             /\ \A u \in DOMAIN objects' \ DOMAIN objects : FullyConstructed(u)]_vars

\* loader['urn:1'] failed, with the entity of urn:2, to which the element of
\* urn:1 refers, in the memo and urn:1 not in it
C26_Witness ==
    /\ result.op = "getitem"
    /\ result.key = "urn:1"
    /\ result.err # NoErr
    /\ firstReturn = <<>>
    /\ "urn:1" \notin DOMAIN objects
    /\ "urn:2" \in DOMAIN objects
    /\ "urn:2" \in References(xml["urn:1"])

(***************************************************************************)
(* C27: in every state of a loader, the entity that the memo holds under   *)
(* the key u has u as its identifier, also when the element of u contains  *)
(* elements with an identifier child of their own.                         *)
(***************************************************************************)
C27_KeyIsIdentifier == \A u \in DOMAIN objects : heap[objects[u]].identifier = u

\* what does hold: the identifier is the key when the first identifier
\* element among the descendants of the element is a child of the element
C27_KeyIsIdentifierOfChild ==
    \A u \in DOMAIN objects :
       dom[node_getElementsByTagName(dom, xml[u], "identifier")[1]].parent = xml[u]
          => heap[objects[u]].identifier = u

\* the coordinate system B, whose inline axis A comes before its identifier
\* element, is in the memo under B
C27_InlineBefore ==
    /\ <<"B">> \in DOMAIN objects
    /\ heap[objects[<<"B">>]].class = "CartesianCS"
    /\ heap[objects[<<"B">>]].identifier = <<"A">>

(***************************************************************************)
(* C28: in every state of a loader the memo is contained in the index and  *)
(* closed under references: every key of the memo is a key of the index,   *)
(* and every URN that the element of a memo entry refers to is a key of    *)
(* the memo, whose entity was registered before the entity that refers to  *)
(* it and is the one that entity holds.                                    *)
(***************************************************************************)
C28_MemoClosed ==
    \A u \in DOMAIN objects :
       /\ u \in DOMAIN xml
       /\ \A t \in References(xml[u]) :
             /\ t \in DOMAIN objects
             /\ objects[t] < objects[u]
             /\ objects[t] \in Referents(heap[objects[u]])

\* the memo holds urn:1, which refers to urn:2, which refers to urn:3
C28_Witness ==
    /\ "urn:1" \in DOMAIN objects
    /\ "urn:2" \in References(xml["urn:1"])
    /\ "urn:3" \in References(xml["urn:2"])
    /\ objects["urn:3"] < objects["urn:2"]
    /\ objects["urn:2"] < objects["urn:1"]

(***************************************************************************)
(* C29: registry[k] = v affects the key k only: every other key that was   *)
(* stored before is still stored, with an equal entity, and no key other   *)
(* than k is added, also when v refers to entities that are not in the     *)
(* registry.                                                               *)
(***************************************************************************)
C29_OnlyKey ==
    [][(result'.op = "set" /\ result'.err = NoErr)
          => /\ \A j \in DOMAIN db.rows \ {result'.key} :
                   /\ j \in DOMAIN db'.rows
                   /\ Materialise(db'.rows, j) = Materialise(db.rows, j)
             /\ DOMAIN db'.rows \ DOMAIN db.rows \subseteq {result'.key}]_vars

\* what does hold: the keys that are added are identifiers of v and of the
\* entities v refers to, and a key that is removed is k
C29_KeysOfValue ==
    [][(result'.op = "set" /\ result'.err = NoErr)
          => /\ DOMAIN db'.rows \ DOMAIN db.rows \subseteq DOMAIN merge(<<>>, result'.arg)
             /\ DOMAIN db.rows \ DOMAIN db'.rows \subseteq {result'.key}]_vars

\* the datum urn:1 was stored under its identifier and the registry holds
\* its area of use and its prime meridian as well
C29_Cascade ==
    /\ result.op = "set" /\ result.err = NoErr
    /\ result.key = "urn:1" /\ result.arg.identifier = "urn:1"
    /\ result.arg.class = "GeodeticDatum"
    /\ DOMAIN db.rows = {"urn:1", "urn:2", "urn:3"}

(***************************************************************************)
(* C30: for every string key k and every entity v, k different from the    *)
(* identifier of v included: after registry[k] = v has succeeded, k is     *)
(* contained in the registry and registry[k] is an entity equal to v.      *)
(***************************************************************************)
C30_MappingLaw ==
    [][(result'.op = "set" /\ result'.err = NoErr)
          => /\ Registry_contains(db', result'.key)
             /\ Registry_getitem(db', result'.key).err = NoErr
             /\ Registry_getitem(db', result'.key).val = result'.arg]_vars

\* what does hold: the entity is stored under its own identifier
C30_StoredUnderIdentifier ==
    [][(result'.op = "set" /\ result'.err = NoErr)
          => /\ Registry_contains(db', result'.arg.identifier)
             /\ Registry_getitem(db', result'.arg.identifier).val.class = result'.arg.class]_vars

\* registry['urn:0'] = v succeeded for the entity v with the identifier
\* urn:1, and urn:0 is not a key of the registry
C30_OtherKey ==
    /\ result.op = "set" /\ result.err = NoErr
    /\ result.key = AbsentURN
    /\ result.arg.identifier = "urn:1"
    /\ ~Registry_contains(db, AbsentURN)
    /\ Registry_contains(db, "urn:1")

\* the result r of registry[key] in the database store
Observes(r, store, key) ==
    /\ r.err = Registry_getitem(store, key).err
    /\ r.err = NoErr => r.obj = Registry_getitem(store, key).val

\* the database that registry[key] = value, taken as one step, leaves
After(t) == Registry_setitem(t.before, t.key, t.value).self

(***************************************************************************)
(* C25: while registry[k] = v replaces the entity stored under k, another  *)
(* session that reads k finds the old entity, whole, or the new entity,    *)
(* whole: it never finds the key missing and never an entity that is       *)
(* partly written.                                                         *)
(***************************************************************************)
C25_OldOrNew ==
    [][(result'.op = "other.get" /\ transaction # NoTransaction
          /\ result'.key = transaction.key)
          => /\ \/ Observes(result', transaction.before, result'.key)
                \/ Observes(result', After(transaction), result'.key)
             /\ (result'.key \in DOMAIN transaction.before.rows
                   /\ transaction.value.identifier = result'.key)
                   => result'.err = NoErr]_vars

\* the committed database is the one before the assignment until the
\* commit, and the commit leaves the one of the assignment as one step
C25_CommitIsSet ==
    [][/\ transaction # NoTransaction => db = transaction.before
       /\ (transaction # NoTransaction /\ transaction' = NoTransaction) => db' = After(transaction)]_vars

\* the writing session has deleted the old entity of urn:1 and not yet
\* merged the new one, and the other session has just read the old entity
C25_Witness ==
    /\ transaction # NoTransaction
    /\ transaction.pc = "merge"
    /\ transaction.key = "urn:1"
    /\ transaction.value = VerticalDatum("urn:1", "new", Area("urn:2", "new"))
    /\ "urn:1" \notin DOMAIN transaction.session.rows
    /\ result.op = "other.get"
    /\ result.key = "urn:1"
    /\ result.err = NoErr
    /\ result.obj.text["name"] = "old"

====
